---- MODULE Spec2Model ----
(***************************************************************************)
(* lulz: the worker task queue (src/src/workers.js) with the adapters that *)
(* use it, and the flow engine (src/index.js): nodes, pipes and the graph  *)
(* compiler.  The queue lives on the main thread; every callback below runs*)
(* to completion before the next one starts (single control thread), so    *)
(* each callback is one action.  A worker thread is modelled by its state  *)
(* (running / faulted / terminated) and the task it has been posted; its   *)
(* reply is processed by the main thread in one step (OnMessage).          *)
(*                                                                         *)
(*   Spec        a caller using taskQueue directly                         *)
(*   SpecWorker  worker(options) as a node of a flow                       *)
(*   SpecBatch   parallelMap(options) as a node of a flow                  *)
(*   SpecFlow    flow(graph) and the calls made on it                      *)
(*                                                                         *)
(* A call on a flow (app.emit, app.inject) runs its whole synchronous      *)
(* cascade of receive and send before it returns, so it is one action; the *)
(* trace keeps the order of everything that happened inside it.            *)
(***************************************************************************)
EXTENDS Integers, Sequences, FiniteSets, TLC

\* ------------------------------------------------------------------ bounds
\* What the environment does to one queue in one run: tasks submitted,
\* drain() and terminate() calls, execution-unit faults.
MaxCalls == 3

\* options.workers of taskQueue(options)
WorkerCounts == {1, 2}

\* ------------------------------------------------------------- JS values
\* A JavaScript value, as far as the queue looks at it: undefined, a number,
\* a string, NaN or an object.
Undefined == [t |-> "undefined", n |-> 0, s |-> ""]
Num(n) == [t |-> "number", n |-> n, s |-> ""]
Str(s) == [t |-> "string", n |-> 0, s |-> s]
NaNValue == [t |-> "nan", n |-> 0, s |-> ""]
ObjectValue == [t |-> "object", n |-> 0, s |-> ""]
ArrayValue(items) == [t |-> "array", n |-> 0, s |-> "", items |-> items]

\* JS truthiness, as `if (msg.error)` and `if (original)` apply it.
Truthy(v) ==
  CASE v.t = "undefined" -> FALSE
    [] v.t = "nan" -> FALSE
    [] v.t = "number" -> v.n # 0
    [] v.t = "string" -> v.s # ""
    [] OTHER -> TRUE

\* ------------------------------------------------------------ the inputs
\* The data a caller puts in a task, and the ids a caller may supply itself.
DataValues == {2, -1, -2}
UserIds == {1}

\* options.handler: the handler of the README's error-handling example,
\* squaring instead of taking the root; one failure carries a description,
\* the other (`throw new Error()`) carries the empty one.
Handler(data) ==
  IF data.t # "number" THEN [threw |-> FALSE, value |-> NaNValue, message |-> Undefined]
  ELSE IF data.n < 0
    THEN [threw |-> TRUE, value |-> Undefined,
          message |-> Str(IF data.n = -1 THEN "Negative not allowed" ELSE "")]
    ELSE [threw |-> FALSE, value |-> Num(data.n * data.n), message |-> Undefined]

\* The inline worker: parentPort.on('message') around the handler.  One
\* message per task: {id, result} or {id, error: error.message}.
WorkerReply(task) ==
  LET out == Handler(task.data) IN
    IF out.threw
      THEN [id |-> task.id, result |-> Undefined, error |-> out.message]
      ELSE [id |-> task.id, result |-> out.value, error |-> Undefined]

\* -------------------------------------------------------------- the state
VARIABLES
  pending,          \* tasks waiting for a worker (FIFO)
  running,          \* Map taskId -> worker
  pool,             \* available workers (a stack)
  workers,          \* every worker created: its _busy flag, its thread, its posted task
  taskIdCounter,
  totalSubmitted,
  totalCompleted,
  hasErrorListener, \* whether the queue's user registered an 'error' listener
  events,           \* what the queue has emitted, in order
  uncaught,         \* an exception left a callback of the main thread
  drainWaiting,     \* drain() promises waiting on once('drain')
  drainResolved,    \* drain() promises resolved
  drainCalls,
  term,             \* terminate(): "none", "stopping" (awaiting the workers), "done"
  atTerminate,      \* the workers whose thread ran when terminate() was called
  faults,           \* execution-unit faults so far
  lost,             \* submission numbers of the tasks in flight on a faulted worker
  tasks,            \* every task submitted, by submission number
  dispatchLog,      \* every hand-over of a task to a worker, in order
  lastSubmitAll,    \* the last submitAll call: its argument and what it returned
  user,             \* who holds the queue: "caller" (taskQueue used directly), "worker" or "parallelMap"
  workerCount,      \* options.workers
  created,          \* the queue exists (the adapters create it on their first packet)
  pendingCallbacks, \* worker(): Map taskId -> original packet
  results,          \* parallelMap(): Map taskId -> result
  expectedCount,    \* parallelMap(): items.length of the last packet
  received,         \* the adapters: the packets that came in, in order
  sent,             \* the adapters: the packets passed to send, in order
  graph,            \* flow(graph): the lines given
  nodes,            \* every node made by makeNode: its name, its function, its outputs
  _pipes,           \* app._pipes: pipe name -> node
  listeners,        \* app.on(name, listener): how many listeners each event name has
  trace,            \* every receive of a node and every listener call, in order
  called,           \* the calls made on the flow since flow() returned, in order
  subs,             \* the flows used as elements: name -> their _pipes and what was registered with on()
  _flows,           \* compose(...flows): composed._flows
  _producers,       \* app._producers: the producer bindings { fn, node }
  _cleanups,        \* app._cleanups: the cleanup functions start() has collected
  invoked,          \* every call of a factory, a producer or a cleanup, in order
  count,            \* take(options): options.count, 1 when it is not given
  taken,            \* take(options): how many packets the processor has forwarded
  previous,         \* pairwise(): the packet received last
  hasPrevious,      \* pairwise(): whether a packet was received
  rules,            \* switchNode(options): options.rules
  checkall,         \* switchNode(options): options.checkall
  rate,             \* delay(options): options.rate, 0 when it is not given
  drop,             \* delay(options): options.drop
  queue,            \* delay(options): the packets waiting to be forwarded
  processing,       \* delay(options): whether the limiter is active
  timers,           \* the setTimeout callbacks that have not run yet, in the order they are due
  clock,            \* how many timeouts have fired
  sentAt,           \* the value of clock at every send, in order
  busyArrivals      \* delay(options): the arrivals that found the limiter active

queueVars == <<pending, running, pool, workers, taskIdCounter, totalSubmitted,
               totalCompleted, hasErrorListener, events, uncaught, drainWaiting,
               drainResolved, drainCalls, term, atTerminate, faults, lost, tasks,
               dispatchLog, lastSubmitAll, user, workerCount, created>>

adapterVars == <<pendingCallbacks, results, expectedCount, received, sent>>

appVars == <<subs, _flows, _producers, _cleanups, invoked>>

takeVars == <<count, taken>>
pairwiseVars == <<previous, hasPrevious>>
switchVars == <<rules, checkall>>
delayVars == <<rate, drop, queue, processing, timers, clock, sentAt, busyArrivals>>

operatorVars == <<takeVars, pairwiseVars, switchVars, delayVars>>

flowVars == <<graph, nodes, _pipes, listeners, trace, called, appVars, operatorVars>>

vars == <<queueVars, adapterVars, flowVars>>

NoTask == [id |-> 0, data |-> Undefined, seq |-> 0]

\* createWorker(): worker._busy = false, a fresh thread, nothing posted.
NewWorker == [_busy |-> FALSE, thread |-> "running", job |-> NoTask]

\* The closure state the queue's functions read and write, as one value.
Cur ==
  [pending |-> pending, running |-> running, pool |-> pool, workers |-> workers,
   taskIdCounter |-> taskIdCounter, totalSubmitted |-> totalSubmitted,
   totalCompleted |-> totalCompleted, events |-> events, uncaught |-> uncaught,
   drainWaiting |-> drainWaiting, drainResolved |-> drainResolved,
   tasks |-> tasks, dispatchLog |-> dispatchLog, lost |-> lost,
   pendingCallbacks |-> pendingCallbacks, results |-> results,
   expectedCount |-> expectedCount, sent |-> sent]

Commit(s) ==
  /\ pending' = s.pending
  /\ running' = s.running
  /\ pool' = s.pool
  /\ workers' = s.workers
  /\ taskIdCounter' = s.taskIdCounter
  /\ totalSubmitted' = s.totalSubmitted
  /\ totalCompleted' = s.totalCompleted
  /\ events' = s.events
  /\ uncaught' = s.uncaught
  /\ drainWaiting' = s.drainWaiting
  /\ drainResolved' = s.drainResolved
  /\ tasks' = s.tasks
  /\ dispatchLog' = s.dispatchLog
  /\ lost' = s.lost
  /\ pendingCallbacks' = s.pendingCallbacks
  /\ results' = s.results
  /\ expectedCount' = s.expectedCount
  /\ sent' = s.sent

\* Map.set / Map.delete on running.
MapSet(m, k, v) == [x \in DOMAIN m \cup {k} |-> IF x = k THEN v ELSE m[x]]
MapDelete(m, k) == [x \in DOMAIN m \ {k} |-> m[x]]
EmptyMap == [x \in {} |-> 0]

Front(q) == SubSeq(q, 1, Len(q) - 1)
Last(q) == q[Len(q)]

\* queue.emit(type, ...): the emission, with the counters a listener would
\* read from queue.stats() at that moment.
Emit(s, type, id, seq, value) ==
  [s EXCEPT !.events = Append(@, [type |-> type, id |-> id, seq |-> seq, value |-> value,
                                  submitted |-> s.totalSubmitted,
                                  completed |-> s.totalCompleted,
                                  pending |-> Len(s.pending)])]

\* A faulty processNext: pending.pop() instead of pending.shift().
ProcessNextLifo(s, w) ==
  IF Len(s.pending) = 0 THEN s
  ELSE
    LET task == Last(s.pending) IN
      [s EXCEPT !.pending = Front(@),
                !.workers[w]._busy = TRUE,
                !.workers[w].job = task,
                !.running = MapSet(@, task.id, w),
                !.dispatchLog = Append(@, [seq |-> task.seq, id |-> task.id, worker |-> w,
                                           free |-> s.workers[w].job = NoTask,
                                           recorded |-> TRUE])]

\* processNext(worker)
ProcessNext(s, w) ==
  IF Len(s.pending) = 0 THEN s
  ELSE
    LET task == Head(s.pending)
        r == MapSet(s.running, task.id, w) IN
      [s EXCEPT !.pending = Tail(@),
                !.workers[w]._busy = TRUE,
                !.workers[w].job = task,
                !.running = r,
                !.dispatchLog = Append(@, [seq |-> task.seq, id |-> task.id, worker |-> w,
                                           free |-> s.workers[w].job = NoTask,
                                           recorded |-> (task.id \in DOMAIN r /\ r[task.id] = w)])]

\* tryProcess()
RECURSIVE TryProcess(_)
TryProcess(s) ==
  IF Len(s.pending) > 0 /\ Len(s.pool) > 0
    THEN TryProcess(ProcessNext([s EXCEPT !.pool = Front(@)], Last(s.pool)))
    ELSE s

\* queue.submit(task): task is [hasId, id, data], data present (not null).
\* The id returned is the id of the last entry of tasks.
SubmitOp(s, task) ==
  LET counter == IF task.hasId THEN s.taskIdCounter ELSE s.taskIdCounter + 1
      id == IF task.hasId THEN task.id ELSE counter
      taskObj == [id |-> id, data |-> task.data, seq |-> Len(s.tasks) + 1]
  IN TryProcess([s EXCEPT !.taskIdCounter = counter,
                          !.totalSubmitted = @ + 1,
                          !.pending = Append(@, taskObj),
                          !.tasks = Append(@, taskObj)])

\* ------------------------------------------------- the per-packet adapter
\* A packet: payload, one field of caller metadata, and `error` (undefined
\* while the packet has none).
Packet(payload, requestId) == [payload |-> payload, requestId |-> requestId, error |-> Undefined]
NoPacket == [payload |-> Undefined, requestId |-> "", error |-> Undefined]

\* packet.payload ?? packet (and task.data ?? task in submit): the payload,
\* or the whole object when the payload is null or undefined.
DataOf(packet) == IF packet.payload.t = "undefined" THEN ObjectValue ELSE packet.payload

\* A faulty 'result' listener: send({payload: result}) without the original.
ResultListenerBare(s, id, seq, result) ==
  IF id \in DOMAIN s.pendingCallbacks
    THEN [s EXCEPT !.pendingCallbacks = MapDelete(@, id),
                   !.sent = Append(@, [packet |-> [NoPacket EXCEPT !.payload = result],
                                       seq |-> seq])]
    ELSE s

\* worker(): queue.on('result', ...)
ResultListener(s, id, seq, result) ==
  IF id \in DOMAIN s.pendingCallbacks
    THEN LET original == s.pendingCallbacks[id] IN
      [s EXCEPT !.pendingCallbacks = MapDelete(@, id),
                !.sent = Append(@, [packet |-> [original EXCEPT !.payload = result],
                                    seq |-> seq])]
    ELSE s

\* A faulty 'error' listener: the entry is deleted and nothing is sent.
ErrorListenerSilent(s, id, seq, error) ==
  IF id \in DOMAIN s.pendingCallbacks
    THEN [s EXCEPT !.pendingCallbacks = MapDelete(@, id)]
    ELSE s

\* worker(): queue.on('error', ...)
ErrorListener(s, id, seq, error) ==
  IF id \in DOMAIN s.pendingCallbacks
    THEN LET original == s.pendingCallbacks[id] IN
      [s EXCEPT !.pendingCallbacks = MapDelete(@, id),
                !.sent = Append(@, [packet |-> [original EXCEPT !.error = error],
                                    seq |-> seq])]
    ELSE s

\* ----------------------------------------------------- the batch adapter
\* Array.isArray(packet.payload) ? packet.payload : [packet.payload]
ItemsOf(packet) ==
  IF packet.payload.t = "array" THEN packet.payload.items ELSE <<packet.payload>>

\* A faulty handleResult: the output is put together from the last index down.
HandleResultReversed(s, k, id, result) ==
  LET r == MapSet(s.results, id, result)
      items == ItemsOf(received[k])
      n == Len(items)
      ordered == [i \in 1..n |-> IF (n + 1 - i) \in DOMAIN r THEN r[n + 1 - i] ELSE Undefined]
  IN IF Cardinality(DOMAIN r) = s.expectedCount
       THEN [s EXCEPT !.results = r,
                      !.sent = Append(@, [packet |-> [received[k] EXCEPT !.payload = ArrayValue(ordered)],
                                          seq |-> k])]
       ELSE [s EXCEPT !.results = r]

\* parallelMap(): handleResult of the k-th packet (its closure holds that
\* packet and its items; results and expectedCount are shared).
HandleResult(s, k, id, result) ==
  LET r == MapSet(s.results, id, result)
      items == ItemsOf(received[k])
      ordered == [i \in 1..Len(items) |-> IF i \in DOMAIN r THEN r[i] ELSE Undefined]
  IN IF Cardinality(DOMAIN r) = s.expectedCount
       THEN [s EXCEPT !.results = r,
                      !.sent = Append(@, [packet |-> [received[k] EXCEPT !.payload = ArrayValue(ordered)],
                                          seq |-> k])]
       ELSE [s EXCEPT !.results = r]

\* Every packet so far has left one 'result' listener on the queue; emit
\* calls them in the order they were added.
RECURSIVE BatchListeners(_, _, _, _)
BatchListeners(s, k, id, result) ==
  IF k > Len(received) THEN s
  ELSE BatchListeners(HandleResult(s, k, id, result), k + 1, id, result)

\* The 'result' and 'error' listeners of the queue's user.
OnResult(s, id, seq, result) ==
  CASE user = "worker" -> ResultListener(s, id, seq, result)
    [] user = "parallelMap" -> BatchListeners(s, 1, id, result)
    [] OTHER -> s

OnError(s, id, seq, error) ==
  IF user = "worker" THEN ErrorListener(s, id, seq, error) ELSE s

\* ------------------------------------------------------ worker.on('message')
\* A faulty drain check: 'drain' whenever a worker goes back to the pool.
DrainDueAlways(s) == TRUE

\* if (totalCompleted === totalSubmitted) queue.emit('drain')
DrainDue(s) == s.totalCompleted = s.totalSubmitted

\* queue.emit('drain'): every once('drain', resolve) of drain() resolves.
EmitDrain(s) ==
  [Emit(s, "drain", 0, 0, Undefined) EXCEPT !.drainResolved = @ + s.drainWaiting,
                                            !.drainWaiting = 0]

\* The rest of the callback once the event is out: the next task for this
\* worker, or back to the pool with the drain and idle signals.
AfterEmit(s, w) ==
  IF Len(s.pending) > 0 THEN ProcessNext(s, w)
  ELSE
    LET s1 == [s EXCEPT !.pool = Append(@, w)]
        s2 == IF DrainDue(s1) THEN EmitDrain(s1) ELSE s1
    IN IF Len(s2.pool) = workerCount THEN Emit(s2, "idle", 0, 0, Undefined) ELSE s2

\* The whole callback for the reply of worker w.  queue.emit('error') with no
\* 'error' listener throws (EventEmitter), and the callback ends there.
MessageOp(s, w) ==
  LET task == s.workers[w].job
      msg == WorkerReply(task)
      s1 == [s EXCEPT !.workers[w]._busy = FALSE,
                      !.workers[w].job = NoTask,
                      !.running = MapDelete(@, msg.id),
                      !.totalCompleted = @ + 1]
  IN IF Truthy(msg.error)
       THEN IF ~hasErrorListener THEN [s1 EXCEPT !.uncaught = TRUE]
            ELSE LET e == Emit(s1, "error", msg.id, task.seq, msg.error) IN
              AfterEmit(OnError(e, msg.id, task.seq, msg.error), w)
       ELSE LET e == Emit(s1, "result", msg.id, task.seq, msg.result) IN
              AfterEmit(OnResult(e, msg.id, task.seq, msg.result), w)

\* ------------------------------------------------------- worker.on('error')
\* pool.indexOf(worker) / pool.splice(idx, 1)
IndexOf(p, w) ==
  IF \E i \in 1..Len(p) : p[i] = w
    THEN CHOOSE i \in 1..Len(p) : p[i] = w /\ \A j \in 1..(i - 1) : p[j] # w
    ELSE 0

RemoveAt(p, idx) == SubSeq(p, 1, idx - 1) \o SubSeq(p, idx + 1, Len(p))

\* A faulty fault handler: the task of the faulted worker is queued again.
WorkerErrorRequeue(s, w) ==
  LET idx == IndexOf(s.pool, w)
      without == IF idx > 0 THEN RemoveAt(s.pool, idx) ELSE s.pool
      fresh == Len(s.workers) + 1
      had == s.workers[w].job
  IN [s EXCEPT !.pool = Append(without, fresh),
               !.workers = Append([@ EXCEPT ![w].thread = "faulted", ![w].job = NoTask], NewWorker),
               !.pending = IF had = NoTask THEN @ ELSE <<had>> \o @,
               !.lost = IF had = NoTask THEN @ ELSE @ \cup {had.seq}]

\* The faulted worker leaves the pool if it is there; a new one is pushed.
\* The task it had is gone with it (nothing is queued again, running keeps
\* its entry).
WorkerErrorOp(s, w) ==
  LET idx == IndexOf(s.pool, w)
      without == IF idx > 0 THEN RemoveAt(s.pool, idx) ELSE s.pool
      fresh == Len(s.workers) + 1
      had == s.workers[w].job
  IN [s EXCEPT !.pool = Append(without, fresh),
               !.workers = Append([@ EXCEPT ![w].thread = "faulted", ![w].job = NoTask], NewWorker),
               !.lost = IF had = NoTask THEN @ ELSE @ \cup {had.seq}]

\* ---------------------------------------------------------------- actions
\* An uncaught exception on the main thread ends the process.
Alive == ~uncaught

Calls == totalSubmitted + drainCalls + faults + (IF term = "none" THEN 0 ELSE 1)

\* queue.submit(task)
Submit(task) ==
  /\ Alive /\ user = "caller"
  /\ Calls < MaxCalls
  /\ Commit(SubmitOp(Cur, task))
  /\ UNCHANGED <<flowVars, hasErrorListener, drainCalls, term, atTerminate, faults,
                 lastSubmitAll, user, workerCount, created, received>>

\* queue.submitAll(tasks): tasks.map(t => queue.submit(t))
RECURSIVE SubmitAllOp(_, _)
SubmitAllOp(s, ts) ==
  IF ts = <<>> THEN s ELSE SubmitAllOp(SubmitOp(s, Head(ts)), Tail(ts))

SubmitAll(ts) ==
  /\ Alive /\ user = "caller"
  /\ Calls + Len(ts) <= MaxCalls
  /\ LET s == SubmitAllOp(Cur, ts) IN
       /\ Commit(s)
       /\ lastSubmitAll' = [called |-> TRUE, tasks |-> ts,
                            ids |-> [i \in 1..Len(ts) |-> s.tasks[Len(tasks) + i].id],
                            first |-> Len(tasks) + 1]
  /\ UNCHANGED <<flowVars, hasErrorListener, drainCalls, term, atTerminate, faults,
                 user, workerCount, created, received>>

\* The reply of worker w reaches the main thread.
OnMessage(w) ==
  /\ Alive /\ created
  /\ w \in 1..Len(workers)
  /\ workers[w].thread = "running" /\ workers[w].job # NoTask
  /\ Commit(MessageOp(Cur, w))
  /\ UNCHANGED <<flowVars, hasErrorListener, drainCalls, term, atTerminate, faults,
                 lastSubmitAll, user, workerCount, created, received>>

\* An execution-unit fault of worker w, idle or busy.
OnWorkerError(w) ==
  /\ Alive /\ created
  /\ Calls < MaxCalls
  /\ w \in 1..Len(workers)
  /\ workers[w].thread = "running"
  /\ Commit(WorkerErrorOp(Cur, w))
  /\ faults' = faults + 1
  /\ UNCHANGED <<flowVars, hasErrorListener, drainCalls, term, atTerminate,
                 lastSubmitAll, user, workerCount, created, received>>

\* queue.drain()
Quiescent == totalCompleted = totalSubmitted /\ Len(pending) = 0

Drain ==
  /\ Alive /\ user = "caller"
  /\ Calls < MaxCalls
  /\ drainCalls' = drainCalls + 1
  /\ IF Quiescent
       THEN drainResolved' = drainResolved + 1 /\ UNCHANGED drainWaiting
       ELSE drainWaiting' = drainWaiting + 1 /\ UNCHANGED drainResolved
  /\ UNCHANGED <<flowVars, pending, running, pool, workers, taskIdCounter, totalSubmitted,
                 totalCompleted, hasErrorListener, events, uncaught, term,
                 atTerminate, faults, lost, tasks, dispatchLog, lastSubmitAll,
                 user, workerCount, created, adapterVars>>

\* queue.terminate(), up to its await: worker.terminate() on every worker of
\* the pool and on every value of running.
TerminateTargets == {pool[i] : i \in 1..Len(pool)} \cup {running[k] : k \in DOMAIN running}

TerminateCall ==
  /\ Alive /\ user = "caller"
  /\ Calls < MaxCalls
  /\ term = "none"
  /\ term' = "stopping"
  /\ atTerminate' = {w \in 1..Len(workers) : workers[w].thread = "running"}
  /\ workers' = [w \in 1..Len(workers) |->
                   IF w \in TerminateTargets /\ workers[w].thread = "running"
                     THEN [workers[w] EXCEPT !.thread = "terminated"]
                     ELSE workers[w]]
  /\ UNCHANGED <<flowVars, pending, running, pool, taskIdCounter, totalSubmitted,
                 totalCompleted, hasErrorListener, events, uncaught, drainWaiting,
                 drainResolved, drainCalls, faults, lost, tasks, dispatchLog,
                 lastSubmitAll, user, workerCount, created, adapterVars>>

\* queue.terminate(), after the await: the three collections are cleared and
\* 'terminated' is emitted.
TerminateDone ==
  /\ Alive /\ user = "caller"
  /\ term = "stopping"
  /\ term' = "done"
  /\ Commit(Emit([Cur EXCEPT !.pool = <<>>, !.running = EmptyMap, !.pending = <<>>],
                 "terminated", 0, 0, Undefined))
  /\ UNCHANGED <<flowVars, hasErrorListener, drainCalls, atTerminate, faults,
                 lastSubmitAll, user, workerCount, created, received>>

\* -------------------------------------------------------- initial states
\* taskQueue(options): the pool holds workerCount fresh workers.
NoSubmitAll == [called |-> FALSE, tasks |-> <<>>, ids |-> <<>>, first |-> 0]

FreshQueue ==
  /\ pending = <<>>
  /\ running = EmptyMap
  /\ taskIdCounter = 0
  /\ totalSubmitted = 0
  /\ totalCompleted = 0
  /\ events = <<>>
  /\ drainWaiting = 0
  /\ drainResolved = 0
  /\ drainCalls = 0
  /\ term = "none"
  /\ atTerminate = {}
  /\ faults = 0
  /\ lost = {}
  /\ tasks = <<>>
  /\ dispatchLog = <<>>
  /\ lastSubmitAll = NoSubmitAll
  /\ pendingCallbacks = EmptyMap
  /\ results = EmptyMap
  /\ expectedCount = 0
  /\ received = <<>>
  /\ sent = <<>>

InitQueue == FreshQueue /\ uncaught = FALSE

\* No processor of the node library has been made.
NoTake == count = 0 /\ taken = 0
NoPairwise == previous = NoPacket /\ hasPrevious = FALSE
NoSwitch == rules = <<>> /\ checkall = FALSE
NoDelay ==
  /\ rate = 0 /\ drop = FALSE /\ queue = <<>> /\ processing = FALSE
  /\ timers = <<>> /\ clock = 0 /\ sentAt = <<>> /\ busyArrivals = {}

NoOperator == NoTake /\ NoPairwise /\ NoSwitch /\ NoDelay

\* No flow has been built.
NoGraph ==
  /\ graph = <<>>
  /\ nodes = <<>>
  /\ _pipes = EmptyMap
  /\ listeners = EmptyMap
  /\ trace = <<>>
  /\ called = <<>>
  /\ subs = EmptyMap
  /\ _flows = <<>>
  /\ _producers = <<>>
  /\ _cleanups = <<>>
  /\ invoked = <<>>

NoFlow == NoGraph /\ NoOperator

\* A caller holding the queue, with or without an 'error' listener on it.
Init ==
  /\ InitQueue /\ NoFlow
  /\ workerCount \in WorkerCounts
  /\ pool = [i \in 1..workerCount |-> i]
  /\ workers = [i \in 1..workerCount |-> NewWorker]
  /\ user = "caller"
  /\ created = TRUE
  /\ hasErrorListener \in BOOLEAN

TaskInputs ==
  [hasId : {FALSE}, id : {0}, data : {Num(d) : d \in DataValues}]
    \cup [hasId : {TRUE}, id : UserIds, data : {Num(d) : d \in DataValues}]

Next ==
  \/ \E task \in TaskInputs : Submit(task)
  \/ \E a, b \in TaskInputs : SubmitAll(<<a, b>>)
  \/ \E w \in 1..Len(workers) : OnMessage(w)
  \/ \E w \in 1..Len(workers) : OnWorkerError(w)
  \/ Drain
  \/ TerminateCall
  \/ TerminateDone

Spec == Init /\ [][Next]_vars

\* A caller on a queue whose workers do not fault and which is not
\* terminated.  A worker thread that has a task posts its reply, and the
\* event loop of the main thread runs the 'message' callback for it.
NextLive ==
  \/ \E task \in TaskInputs : Submit(task)
  \/ \E w \in 1..Len(workers) : OnMessage(w)
  \/ Drain

SpecLive ==
  /\ Init /\ [][NextLive]_vars
  /\ \A w \in 1..2 : WF_vars(OnMessage(w))

\* ------------------------------------------------ worker(options) in a flow
\* The node function (send, packet) => {...}: the queue and its two listeners
\* are created on the first packet; each packet submits one task and is
\* remembered under the id submit returned.
PacketInputs == {Packet(Num(d), r) : d \in DataValues \cup {3}, r \in {"r1", "r2"}}

Receive(packet) ==
  /\ Alive /\ user = "worker"
  /\ Calls < MaxCalls
  /\ LET fresh == IF created THEN Cur
                  ELSE [Cur EXCEPT !.pool = [i \in 1..workerCount |-> i],
                                   !.workers = [i \in 1..workerCount |-> NewWorker]]
         s == SubmitOp(fresh, [hasId |-> FALSE, id |-> 0, data |-> DataOf(packet)])
         taskId == Last(s.tasks).id
     IN Commit([s EXCEPT !.pendingCallbacks = MapSet(@, taskId, packet)])
  /\ created' = TRUE
  /\ hasErrorListener' = TRUE
  /\ received' = Append(received, packet)
  /\ UNCHANGED <<flowVars, drainCalls, term, atTerminate, faults, lastSubmitAll, user, workerCount>>

InitWorker ==
  /\ InitQueue /\ NoFlow
  /\ workerCount \in WorkerCounts
  /\ pool = <<>>
  /\ workers = <<>>
  /\ user = "worker"
  /\ created = FALSE
  /\ hasErrorListener = FALSE

NextWorker ==
  \/ \E packet \in PacketInputs : Receive(packet)
  \/ \E w \in 1..Len(workers) : OnMessage(w)
  \/ \E w \in 1..Len(workers) : OnWorkerError(w)

SpecWorker == InitWorker /\ [][NextWorker]_vars

\* ------------------------------------------- parallelMap(options) in a flow
\* The node function: the queue is created on the first packet, with no
\* 'error' listener; every packet resets expectedCount and results, adds one
\* 'result' listener and submits its items under the ids 1..N.
BatchItems ==
  {<<Num(a)>> : a \in DataValues \cup {3}}
    \cup {<<Num(a), Num(b)>> : a, b \in DataValues \cup {3}}
    \cup {<<Num(2), Num(3), Num(4)>>}
BatchInputs ==
  {Packet(ArrayValue(items), r) : items \in BatchItems, r \in {"r1", "r2"}}
    \cup {Packet(Num(2), "r1")}

ReceiveBatch(packet) ==
  /\ Alive /\ user = "parallelMap"
  /\ Calls + Len(ItemsOf(packet)) <= MaxCalls
  /\ LET items == ItemsOf(packet)
         fresh == IF created THEN Cur
                  ELSE [Cur EXCEPT !.pool = [i \in 1..workerCount |-> i],
                                   !.workers = [i \in 1..workerCount |-> NewWorker]]
         reset == [fresh EXCEPT !.expectedCount = Len(items), !.results = EmptyMap]
     IN Commit(SubmitAllOp(reset, [i \in 1..Len(items) |->
                                     [hasId |-> TRUE, id |-> i, data |-> items[i]]]))
  /\ created' = TRUE
  /\ received' = Append(received, packet)
  /\ UNCHANGED <<flowVars, hasErrorListener, drainCalls, term, atTerminate, faults,
                 lastSubmitAll, user, workerCount>>

InitBatch ==
  /\ InitQueue /\ NoFlow
  /\ workerCount \in WorkerCounts
  /\ pool = <<>>
  /\ workers = <<>>
  /\ user = "parallelMap"
  /\ created = FALSE
  /\ hasErrorListener = FALSE

NextBatch ==
  \/ \E packet \in BatchInputs : ReceiveBatch(packet)
  \/ \E w \in 1..Len(workers) : OnMessage(w)
  \/ \E w \in 1..Len(workers) : OnWorkerError(w)

SpecBatch == InitBatch /\ [][NextBatch]_vars

\* ---------------------------------------------------------- the flow engine
\* flow(graph) of src/index.js: nodes, pipes and the graph compiler.  Node
\* references are numbers: the n-th node made is n.
MaxTransforms == 3
MaxFlowCalls == 2

\* app._pipes is a plain object ({}), so app._pipes[name] also finds what
\* Object.prototype gives every object: a truthy value that is no node (it
\* has neither connect nor receive).
ObjectPrototypeKeys == {"constructor"}
Inherited == -1

\* The elements of a line: a pipe name, a function, or an array of functions
\* (plain, or marked by parallel(...) / series(...)).
StringEl(name) == [kind |-> "string", name |-> name, mark |-> "", fns |-> <<>>]
FunctionEl(f) == [kind |-> "function", name |-> f, mark |-> "", fns |-> <<>>]
ArrayEl(mark, fns) == [kind |-> "array", name |-> "", mark |-> mark, fns |-> fns]

\* A flow used as an element, an element that is neither a string, a function
\* nor a flow (a number, say), and what stands where a line should be but is
\* no array.
FlowEl(name) == [kind |-> "flow", name |-> name, mark |-> "", fns |-> <<>>]
OtherEl == [kind |-> "other", name |-> "", mark |-> "", fns |-> <<>>]
NotAnArray == <<[kind |-> "notarray", name |-> "", mark |-> "", fns |-> <<>>]>>

\* Array.isArray(line)
IsArray(line) == ~(Len(line) = 1 /\ line[1].kind = "notarray")

\* The functions by name.  Regular functions (they own a 'prototype') are the
\* factories: add(options) gives a processor adding options.n, or 1;
\* inject(options) gives a producer.  The others are arrow functions: the
\* processors inc, dbl, drop and add5 (what add({n: 5}) returned), the
\* producers tick and quiet.
OuterFns == {"add", "inject"}
isOuter(fn) == fn \in OuterFns

\* fn.bind({ context })({}): what the factory returns for an empty configuration.
Configured(fn) == IF fn = "add" THEN "add1" ELSE "tick"

\* The flows used as elements, by the name the graph gives them, each built
\* by subflow(graph) before the graph that uses it.
SubGraphs ==
  [f1 |-> <<<<StringEl("in"), FunctionEl("inc"), StringEl("out")>>>>,
   f2 |-> <<<<StringEl("in"), FunctionEl("dbl"), StringEl("out")>>>>,
   f3 |-> <<<<FunctionEl("tick"), StringEl("out")>>>>]

\* isFlow(obj), of a value that reached a function position
isFlow(fn) == fn \in DOMAIN SubGraphs

\* isParallel(item), isSeriesMarker(item)
isParallel(item) == item.kind = "array" /\ item.mark = "_parallel"
isSeriesMarker(item) == item.kind = "array" /\ item.mark = "_series"

\* A faulty set of processors: the one that should stay silent forwards.
ProcessorAllForward(f, packet) ==
  CASE f = "inc" -> <<[packet EXCEPT !.payload = Num(@.n + 1)]>>
    [] f = "dbl" -> <<[packet EXCEPT !.payload = Num(@.n * 2)]>>
    [] OTHER -> <<packet>>

\* The processors used as transforms: what each passes to send, in order,
\* for one packet.  "inc" and "dbl" forward one changed copy ({...packet,
\* payload: ...}), "drop" never calls send.
Processor(f, packet) ==
  CASE f = "inc" -> <<[packet EXCEPT !.payload = Num(@.n + 1)]>>
    [] f = "dbl" -> <<[packet EXCEPT !.payload = Num(@.n * 2)]>>
    [] f = "add1" -> <<[packet EXCEPT !.payload = Num(@.n + 1)]>>
    [] f = "add5" -> <<[packet EXCEPT !.payload = Num(@.n + 5)]>>
    [] OTHER -> <<>>

\* The function a node wraps: a pipe's (notify, then send), a transform, or
\* (send, packet) => send(packet).
PipeFn(name) == [kind |-> "pipe", arg |-> name]
InnerFn(f) == [kind |-> "inner", arg |-> f]
PassFn == [kind |-> "passthrough", arg |-> ""]

\* The objects that stand for a flow in a line: { receive } sends what it
\* receives to the flow's 'in' ("flowIn"), { connect } registers the next node
\* on the flow's 'out' ("flowOut"), the adapter of a parallel block has both.
FlowFn(kind, f) == [kind |-> kind, arg |-> f]

\* What a flow's on(name, ...) was given: packet => node.receive(packet),
\* packet => f.emit('in', packet), or the forwarding to a composed flow's 'out'.
ReceiveAt(node) == [kind |-> "receive", node |-> node, flow |-> ""]
EmitIn(f) == [kind |-> "emitIn", node |-> 0, flow |-> f]
ComposedOut == [kind |-> "composedOut", node |-> 0, flow |-> ""]

\* flow(): the state it starts from, and every call it makes of a function of
\* the graph.
EmptyNet ==
  [nodes |-> <<>>, pipes |-> EmptyMap, producers |-> <<>>, invoked |-> <<>>,
   subs |-> EmptyMap, threw |-> FALSE, app |-> "app", line |-> 0]

\* One call of a function of the graph: a factory called with {}, a producer
\* called with its send (which feeds node), a cleanup (returned in call 'of').
Invocation(kind, fn, arg, app, line, node, of, call) ==
  [kind |-> kind, fn |-> fn, arg |-> arg, app |-> app, line |-> line, node |-> node,
   of |-> of, call |-> call]

\* What a producer returns: tick returns a cleanup, quiet returns nothing.
ReturnsCleanup(fn) == fn = "tick"

\* start(), of the flow 'app' in call 'call': every producer binding is called
\* with packet => node.receive(packet); what it returns is kept if it is a
\* function.  s holds the calls made so far and the flow's _cleanups.
RECURSIVE startOp(_, _, _, _)
startOp(s, ps, app, call) ==
  IF ps = <<>> THEN s
  ELSE LET p == Head(ps)
           ran == Append(s.invoked,
                         Invocation("producer", p.fn, "send", app, 0, p.node, 0, call))
           kept == IF ReturnsCleanup(p.fn)
                     THEN Append(s.cleanups, [fn |-> p.fn, node |-> p.node, of |-> call])
                     ELSE s.cleanups
       IN startOp([invoked |-> ran, cleanups |-> kept], Tail(ps), app, call)

\* stop(): every cleanup is called, and _cleanups is emptied.
stopOp(s, app, call) ==
  [invoked |-> s.invoked \o
                 [i \in 1..Len(s.cleanups) |->
                    Invocation("cleanup", s.cleanups[i].fn, "", app, 0, s.cleanups[i].node,
                               s.cleanups[i].of, call)],
   cleanups |-> <<>>]

\* app._pipes[name]: the node, the inherited value, or undefined (0).
PipeLookup(p, name) ==
  IF name \in DOMAIN p THEN p[name]
  ELSE IF name \in ObjectPrototypeKeys THEN Inherited ELSE 0

\* makeNode(name, fn): a node with no outputs; it is node Len(nodes) + 1.
makeNode(net, name, fn) ==
  [net EXCEPT !.nodes = Append(@, [nodeName |-> name, fn |-> fn, outputs |-> <<>>])]

\* A faulty connect: outputs kept as a list, the destination added every time.
connectAppend(net, node, next) ==
  [net EXCEPT !.nodes[node].outputs = Append(@, next)]

\* node.connect(next): outputs.add(next), outputs being a Set that keeps
\* insertion order.
Contains(q, x) == \E i \in 1..Len(q) : q[i] = x
connect(net, node, next) ==
  IF Contains(net.nodes[node].outputs, next) THEN net
  ELSE [net EXCEPT !.nodes[node].outputs = Append(@, next)]

\* node.disconnect(next): outputs.delete(next)
disconnect(net, node, next) ==
  [net EXCEPT !.nodes[node].outputs = SelectSeq(@, LAMBDA out : out # next)]

\* f.on(name, listener), of a flow used as an element
onIgnored(net, f, name, listener) == net

on(net, f, name, listener) ==
  LET had == IF name \in DOMAIN net.subs[f].on THEN net.subs[f].on[name] ELSE <<>>
  IN [net EXCEPT !.subs[f].on = MapSet(@, name, Append(had, listener))]

\* if (x.connect) x.connect(next): undefined has no properties (a TypeError
\* leaves flow()), an inherited value and { receive } have no connect, a
\* flow's { connect } registers next on the flow's 'out', a node adds next
\* to its outputs.
connectIfNode(net, source, next) ==
  IF net.threw THEN net
  ELSE IF source = 0 THEN [net EXCEPT !.threw = TRUE]
  ELSE IF source = Inherited THEN net
  ELSE CASE net.nodes[source].fn.kind = "flowIn" -> net
         [] net.nodes[source].fn.kind \in {"flowOut", "flowBoth"} ->
              on(net, net.nodes[source].fn.arg, "out", ReceiveAt(next))
         [] OTHER -> connect(net, source, next)

\* getPipe(name): the pipe is made on the first reference.
getPipe(net, name) ==
  IF PipeLookup(net.pipes, name) # 0 THEN net
  ELSE LET made == makeNode(net, name, PipeFn(name)) IN
    [made EXCEPT !.pipes = MapSet(@, name, Len(made.nodes))]

\* A faulty buildSeries: the chain is wired from the last node to the first.
buildSeriesBackwards(net, fns) ==
  IF Len(fns) = 0
    THEN [net |-> makeNode(net, "passthrough", PassFn),
          input |-> Len(net.nodes) + 1, output |-> Len(net.nodes) + 1]
    ELSE LET base == Len(net.nodes)
             made == [i \in 1..Len(fns) |->
                        [nodeName |-> fns[i], fn |-> InnerFn(fns[i]),
                         outputs |-> IF i > 1 THEN <<base + i - 1>> ELSE <<>>]]
         IN [net |-> [net EXCEPT !.nodes = @ \o made],
             input |-> base + Len(fns), output |-> base + 1]

\* A faulty prepareFunction: a factory is taken for the processor.
prepareAsIs(net, fn) == [net |-> net, inner |-> fn]

\* prepareFunction(fn): a factory is called with {} and gives the processor,
\* anything else is the processor.
prepareFunction(net, fn) ==
  IF isOuter(fn)
    THEN [net |-> [net EXCEPT !.invoked =
                     Append(@, Invocation("factory", fn, "{}", net.app, net.line, 0, 0, 0))],
          inner |-> Configured(fn)]
    ELSE [net |-> net, inner |-> fn]

\* An object that is no node: { receive }, { connect }, or both.
makeAdapter(net, fn) ==
  [net EXCEPT !.nodes = Append(@, [nodeName |-> "", fn |-> fn, outputs |-> <<>>])]

\* makeNode(fn.name, prepareFunction(fn))
makePrepared(net, fn) ==
  makeNode(prepareFunction(net, fn).net, fn, InnerFn(prepareFunction(net, fn).inner))

\* fns.map(...): a flow stays a flow, a function is prepared and gets a node.
\* ns is what the elements before gave.
RECURSIVE seriesNodes(_, _, _)
seriesNodes(net, fns, ns) ==
  IF fns = <<>> THEN [net |-> net, nodes |-> ns]
  ELSE IF isFlow(Head(fns))
    THEN seriesNodes(net, Tail(fns), Append(ns, [flow |-> Head(fns), node |-> 0]))
  ELSE seriesNodes(makePrepared(net, Head(fns)), Tail(fns),
                   Append(ns, [flow |-> "", node |-> Len(net.nodes) + 1]))

\* The chain node[i] -> node[i+1]: a flow's 'out' is listened to, a flow's
\* 'in' is reached through a { receive } object.
RECURSIVE chain(_, _, _)
chain(net, ns, i) ==
  IF i >= Len(ns) THEN net
  ELSE chain(IF ns[i].flow # ""
               THEN on(net, ns[i].flow, "out",
                       IF ns[i + 1].flow # "" THEN EmitIn(ns[i + 1].flow)
                       ELSE ReceiveAt(ns[i + 1].node))
             ELSE IF ns[i + 1].flow # ""
               THEN connect(makeAdapter(net, FlowFn("flowIn", ns[i + 1].flow)),
                            ns[i].node, Len(net.nodes) + 1)
             ELSE connect(net, ns[i].node, ns[i + 1].node),
             ns, i + 1)

\* return { input, output }: a flow that is first is entered through a new
\* { receive }, a flow that is last is left through a new { connect }.
seriesEnds(net, ns) ==
  LET first == ns[1]
      last == ns[Len(ns)]
      i == IF first.flow # "" THEN makeAdapter(net, FlowFn("flowIn", first.flow)) ELSE net
  IN [net |-> IF last.flow # "" THEN makeAdapter(i, FlowFn("flowOut", last.flow)) ELSE i,
      input |-> IF first.flow # "" THEN Len(net.nodes) + 1 ELSE first.node,
      output |-> IF last.flow # "" THEN Len(i.nodes) + 1 ELSE last.node]

chained(m) == seriesEnds(chain(m.net, m.nodes, 1), m.nodes)

\* buildSeries(fns): one node per function, node[i] connected to node[i+1];
\* the first is the input, the last is the output.
buildSeries(net, fns) ==
  IF Len(fns) = 0
    THEN [net |-> makeNode(net, "passthrough", PassFn),
          input |-> Len(net.nodes) + 1, output |-> Len(net.nodes) + 1]
    ELSE chained(seriesNodes(net, fns, <<>>))

\* buildParallel(fns, dest): one standalone node per function, one adapter
\* per flow.  ns is what the elements before gave.
RECURSIVE parallelNodes(_, _, _)
parallelNodes(net, fns, ns) ==
  IF fns = <<>> THEN [net |-> net, nodes |-> ns]
  ELSE parallelNodes(IF isFlow(Head(fns)) THEN makeAdapter(net, FlowFn("flowBoth", Head(fns)))
                     ELSE makePrepared(net, Head(fns)),
                     Tail(fns), Append(ns, Len(net.nodes) + 1))

buildParallel(net, fns) == parallelNodes(net, fns, <<>>)

\* A faulty fan-out: only the first node is connected from the source, each
\* node to the next, the last to the destination.
RECURSIVE connectChained(_, _, _, _)
connectChained(net, source, ns, dest) ==
  IF ns = <<>> THEN net
  ELSE LET a == connectIfNode(net, source, Head(ns))
       IN IF Len(ns) = 1 THEN connect(a, Head(ns), dest)
          ELSE connectChained(a, Head(ns), Tail(ns), dest)

\* for (const node of nodes) { if (source.connect) source.connect(node);
\* if (node.connect) node.connect(dest) }
RECURSIVE connectParallel(_, _, _, _)
connectParallel(net, source, ns, dest) ==
  IF ns = <<>> THEN net
  ELSE connectParallel(connectIfNode(connectIfNode(net, source, Head(ns)), Head(ns), dest),
                       source, Tail(ns), dest)

\* The default branch's allFns: a nested array becomes a _parallelBlock
\* entry, a series(...) marker is spliced in, a function stays.
RECURSIVE allFnsOf(_)
allFnsOf(middle) ==
  IF middle = <<>> THEN <<>>
  ELSE LET item == Head(middle)
           entry == IF isParallel(item) \/ (item.kind = "array" /\ ~isSeriesMarker(item))
                      THEN <<[_parallelBlock |-> TRUE, f |-> "", fns |-> item.fns]>>
                    ELSE IF isSeriesMarker(item)
                      THEN [i \in 1..Len(item.fns) |->
                              [_parallelBlock |-> FALSE, f |-> item.fns[i], fns |-> <<>>]]
                      ELSE <<[_parallelBlock |-> FALSE, f |-> item.name, fns |-> <<>>]>>
       IN entry \o allFnsOf(Tail(middle))

\* allFns.filter(f => !f._parallelBlock), as the functions that are left
NotParallelBlock(e) == ~e._parallelBlock
WithoutBlocks(all) ==
  LET kept == SelectSeq(all, NotParallelBlock) IN [i \in 1..Len(kept) |-> kept[i].f]

\* first.start?.(), of a flow used as the source of a line
startFlow(net, f) ==
  LET s == startOp([invoked |-> net.invoked, cleanups |-> net.subs[f].cleanups],
                   net.subs[f].producers, f, 0)
  IN [net EXCEPT !.invoked = s.invoked, !.subs[f].cleanups = s.cleanups]

\* The source of a line: a pipe, a flow (its 'out' feeds a new node, and the
\* flow is started), a producer (a factory is called for it), or undefined.
sourceOf(net, first) ==
  CASE first.kind = "string" ->
         [net |-> getPipe(net, first.name),
          node |-> PipeLookup(getPipe(net, first.name).pipes, first.name)]
    [] first.kind = "flow" ->
         [net |-> startFlow(on(makeNode(net, "flow-source", PassFn), first.name, "out",
                               ReceiveAt(Len(net.nodes) + 1)),
                            first.name),
          node |-> Len(net.nodes) + 1]
    [] first.kind = "function" ->
         [net |-> [makeNode(prepareFunction(net, first.name).net, first.name, PassFn)
                     EXCEPT !.producers =
                       Append(@, [fn |-> prepareFunction(net, first.name).inner,
                                  node |-> Len(net.nodes) + 1])],
          node |-> Len(net.nodes) + 1]
    [] OTHER -> [net |-> net, node |-> 0]

\* The destination of a line: a pipe, a flow ({ receive } to its 'in'), a
\* sink node, or undefined.
destOf(net, last) ==
  CASE last.kind = "string" ->
         [net |-> getPipe(net, last.name),
          node |-> PipeLookup(getPipe(net, last.name).pipes, last.name)]
    [] last.kind = "flow" ->
         [net |-> makeAdapter(net, FlowFn("flowIn", last.name)), node |-> Len(net.nodes) + 1]
    [] last.kind = "function" ->
         [net |-> makePrepared(net, last.name), node |-> Len(net.nodes) + 1]
    [] OTHER -> [net |-> net, node |-> 0]

\* The ends of a line: the source, then the destination.
ends(s, last) ==
  [net |-> destOf(s.net, last).net, source |-> s.node, dest |-> destOf(s.net, last).node]

\* if (source.connect) source.connect(input); if (output.connect) output.connect(dest)
connectSeries(b, source, dest) ==
  connectIfNode(connectIfNode(b.net, source, b.input), b.output, dest)

\* The interior of a line: empty, one series(...) marker, one array, or
\* anything else (the default: a series chain).
wire(e, middle) ==
  IF Len(middle) = 0 THEN connectIfNode(e.net, e.source, e.dest)
  ELSE IF Len(middle) = 1 /\ isSeriesMarker(middle[1])
    THEN connectSeries(buildSeries(e.net, middle[1].fns), e.source, e.dest)
  ELSE IF Len(middle) = 1 /\ middle[1].kind = "array"
    THEN connectParallel(buildParallel(e.net, middle[1].fns).net, e.source,
                         buildParallel(e.net, middle[1].fns).nodes, e.dest)
  ELSE connectSeries(buildSeries(e.net, WithoutBlocks(allFnsOf(middle))), e.source, e.dest)

\* One line of the graph: what is no array or has fewer than two elements is
\* passed over.
compileLine(net, line) ==
  IF ~IsArray(line) \/ Len(line) < 2 THEN net
  ELSE wire(ends(sourceOf(net, line[1]), line[Len(line)]), SubSeq(line, 2, Len(line) - 1))

\* for (const line of graph): an exception ends the loop and flow().
RECURSIVE compileLines(_, _)
compileLines(net, lines) ==
  IF lines = <<>> \/ net.threw THEN net
  ELSE compileLines(compileLine([net EXCEPT !.line = @ + 1], Head(lines)), Tail(lines))

\* app._input = getPipe('in'); app._output = getPipe('out'); return app
withInOut(net) == IF net.threw THEN net ELSE getPipe(getPipe(net, "in"), "out")

\* flow(graph), in a program where net is what exists already.
flowIn(net, g) == withInOut(compileLines(net, g))

\* A flow that was built becomes a value the graphs can name: c is what
\* building it left, net what there was before.
asElement(c, net, f) ==
  [c EXCEPT !.subs = MapSet(@, f, [pipes |-> c.pipes, on |-> EmptyMap,
                                   producers |-> c.producers, cleanups |-> <<>>]),
            !.pipes = net.pipes, !.producers = net.producers, !.app = net.app,
            !.line = net.line]

\* subflow(graph), for the flow the graphs call f
subflow(net, f) ==
  asElement(flowIn([net EXCEPT !.pipes = EmptyMap, !.producers = <<>>, !.app = f, !.line = 0],
                   SubGraphs[f]),
            net, f)

\* The flows a graph has as elements, built in the order f1, f2, f3.
FlowsOf(el) ==
  IF el.kind = "flow" THEN {el.name}
  ELSE {el.fns[i] : i \in 1..Len(el.fns)} \cap DOMAIN SubGraphs

FlowsIn(g) == UNION {UNION {FlowsOf(g[l][e]) : e \in 1..Len(g[l])} : l \in 1..Len(g)}

subflowIf(net, g, f) == IF f \in FlowsIn(g) THEN subflow(net, f) ELSE net

subflows(net, g) == subflowIf(subflowIf(subflowIf(net, g, "f1"), g, "f2"), g, "f3")

flow(g) == flowIn(subflows(EmptyNet, g), g)

\* ------------------------------------------------ the first engine (flow.js)
\* makePipe(name): a node that passes on what it receives
makePipe(net, name) == makeNode(net, name, PassFn)

\* getPipe(name), first engine: pipes is a plain object
getPipeV1(net, name) ==
  IF PipeLookup(net.pipes, name) # 0 THEN net
  ELSE [makePipe(net, name) EXCEPT !.pipes = MapSet(@, name, Len(net.nodes) + 1)]

\* source.connect(dest), called whatever source is: undefined and an inherited
\* value have no connect method.
connectV1(net, source, next) ==
  IF net.threw THEN net
  ELSE IF source <= 0 THEN [net EXCEPT !.threw = TRUE]
  ELSE connect(net, source, next)

\* isSeriesArray(item): an array of functions
isSeriesArray(item) ==
  item.kind = "array" /\ \A i \in 1..Len(item.fns) : ~isFlow(item.fns[i])

\* fns.map(fn => makeNode(fn.name, prepareFunction(fn)))
RECURSIVE seriesNodesV1(_, _)
seriesNodesV1(net, fns) ==
  IF fns = <<>> THEN net ELSE seriesNodesV1(makePrepared(net, Head(fns)), Tail(fns))

\* nodes[i].connect(nodes[i + 1]), the nodes being first, first + 1, ..., last
RECURSIVE chainV1(_, _, _)
chainV1(net, first, last) ==
  IF first >= last THEN net ELSE chainV1(connect(net, first, first + 1), first + 1, last)

\* buildSeries(fns), first engine
buildSeriesV1(net, fns) ==
  IF Len(fns) = 0
    THEN [net |-> makeNode(net, "passthrough", PassFn),
          input |-> Len(net.nodes) + 1, output |-> Len(net.nodes) + 1]
    ELSE [net |-> chainV1(seriesNodesV1(net, fns), Len(net.nodes) + 1,
                          Len(net.nodes) + Len(fns)),
          input |-> Len(net.nodes) + 1, output |-> Len(net.nodes) + Len(fns)]

\* source.connect(input); output.connect(dest)
connectBranch(b, source, dest) ==
  connectV1(connectV1(b.net, source, b.input), b.output, dest)

\* A faulty branch: what it forwards goes nowhere.
branchOpen(net, source, item, dest) ==
  IF isSeriesArray(item) THEN connectV1(buildSeriesV1(net, item.fns).net, source,
                                        buildSeriesV1(net, item.fns).input)
  ELSE IF item.kind = "function"
    THEN connectV1(makePrepared(net, item.name), source, Len(net.nodes) + 1)
  ELSE net

\* One item of the interior: an array of functions is a series chain from
\* the source to the destination, a function is one node between them,
\* anything else is passed over.
branch(net, source, item, dest) ==
  IF isSeriesArray(item) THEN connectBranch(buildSeriesV1(net, item.fns), source, dest)
  ELSE IF item.kind = "function"
    THEN connectV1(connectV1(makePrepared(net, item.name), source, Len(net.nodes) + 1),
                   Len(net.nodes) + 1, dest)
  ELSE net

\* for (const item of middle)
RECURSIVE fanOut(_, _, _, _)
fanOut(net, source, items, dest) ==
  IF items = <<>> \/ net.threw THEN net
  ELSE fanOut(branch(net, source, Head(items), dest), source, Tail(items), dest)

\* The source of a line, first engine: a pipe, a producer, or undefined.
sourceOfV1(net, first) ==
  CASE first.kind = "string" ->
         [net |-> getPipeV1(net, first.name),
          node |-> PipeLookup(getPipeV1(net, first.name).pipes, first.name)]
    [] first.kind = "function" ->
         [net |-> [makeNode(prepareFunction(net, first.name).net, first.name, PassFn)
                     EXCEPT !.producers =
                       Append(@, [fn |-> prepareFunction(net, first.name).inner,
                                  node |-> Len(net.nodes) + 1])],
          node |-> Len(net.nodes) + 1]
    [] OTHER -> [net |-> net, node |-> 0]

\* The destination of a line, first engine: a pipe, a sink, or undefined.
destOfV1(net, last) ==
  CASE last.kind = "string" ->
         [net |-> getPipeV1(net, last.name),
          node |-> PipeLookup(getPipeV1(net, last.name).pipes, last.name)]
    [] last.kind = "function" ->
         [net |-> makePrepared(net, last.name), node |-> Len(net.nodes) + 1]
    [] OTHER -> [net |-> net, node |-> 0]

endsV1(s, last) ==
  [net |-> destOfV1(s.net, last).net, source |-> s.node, dest |-> destOfV1(s.net, last).node]

\* The interior of a line, first engine: nothing, one array of functions (a
\* series), or a fan-out of items.
wireV1(e, middle) ==
  IF Len(middle) = 0 THEN connectV1(e.net, e.source, e.dest)
  ELSE IF Len(middle) = 1 /\ isSeriesArray(middle[1])
    THEN connectBranch(buildSeriesV1(e.net, middle[1].fns), e.source, e.dest)
  ELSE fanOut(e.net, e.source, middle, e.dest)

compileLineV1(net, line) ==
  IF ~IsArray(line) \/ Len(line) < 2 THEN net
  ELSE wireV1(endsV1(sourceOfV1(net, line[1]), line[Len(line)]),
              SubSeq(line, 2, Len(line) - 1))

RECURSIVE compileLinesV1(_, _)
compileLinesV1(net, lines) ==
  IF lines = <<>> \/ net.threw THEN net
  ELSE compileLinesV1(compileLineV1([net EXCEPT !.line = @ + 1], Head(lines)), Tail(lines))

\* flow(graph), first engine
flowV1(g) == compileLinesV1(EmptyNet, g)

\* ---------------------------------------------------------------- compose
\* current.on('out', packet => next.emit('in', packet)), for every flow but
\* the last
RECURSIVE wireFlows(_, _, _)
wireFlows(net, flows, i) ==
  IF i >= Len(flows) THEN net
  ELSE wireFlows(on(net, flows[i], "out", EmitIn(flows[i + 1])), flows, i + 1)

\* A faulty compose: the flows are not wired to each other.
composeUnwired(net, flows) ==
  IF flows = <<>> THEN net ELSE on(net, flows[Len(flows)], "out", ComposedOut)

\* compose(...flows): the flows wired in sequence, and the last flow's 'out'
\* emitted by the composed flow.
compose(net, flows) ==
  IF flows = <<>> THEN net
  ELSE on(wireFlows(net, flows, 1), flows[Len(flows)], "out", ComposedOut)

\* The flows as they are given to compose, each built by subflow(graph).
composed(flows) ==
  compose(subflows(EmptyNet, <<[i \in 1..Len(flows) |-> FlowEl(flows[i])]>>), flows)

\* ------------------------------------------------------ packets in the flow
\* One call on the flow runs to its end on the one control thread: r is what
\* it has done so far (the trace) and whether an exception has left it.
ListenerCount(name) == IF name \in DOMAIN listeners THEN listeners[name] ELSE 0

Entry(kind, node, name, listener, packet, parent, call) ==
  [kind |-> kind, node |-> node, name |-> name, listener |-> listener,
   packet |-> packet, parent |-> parent, call |-> call]

\* _originalEmit(name, packet): every listener of the name, in the order they
\* were added; EventEmitter throws on 'error' when it has no listener.
originalEmit(r, name, packet, parent, call) ==
  IF name = "error" /\ ListenerCount(name) = 0 THEN [r EXCEPT !.threw = TRUE]
  ELSE [r EXCEPT !.trace = @ \o [l \in 1..ListenerCount(name) |->
                                   Entry("listener", 0, name, l, packet, parent, call)]]

\* The order in which send goes through the outputs.
OutputOrderReversed(outs) == [i \in 1..Len(outs) |-> outs[Len(outs) + 1 - i]]

\* for (const out of outputs): a Set iterates in insertion order.
OutputOrder(outs) == outs

\* The flow whose pipe a node is: one of the flows used as elements, or the
\* flow itself.  The pipe's function notifies that flow's listeners.
OwnerOf(node) ==
  LET owners == {f \in DOMAIN subs :
                   \E name \in DOMAIN subs[f].pipes : subs[f].pipes[name] = node}
  IN IF owners = {} THEN "app" ELSE CHOOSE f \in owners : TRUE

\* node.receive(packet) = fn(send, packet), and send(packet): out.receive(packet)
\* for every output in turn, each call returning before the next is made.
\* undefined, an inherited value and { connect } have no receive.  A flow's
\* emit is the flow's own override, its _originalEmit calls what its on()
\* was given.
RECURSIVE receive(_, _, _, _, _)
RECURSIVE send(_, _, _, _, _)
RECURSIVE sendEach(_, _, _, _, _)
RECURSIVE flowEmit(_, _, _, _, _, _)
RECURSIVE notify(_, _, _, _, _)
RECURSIVE flowOriginalEmit(_, _, _, _, _, _)
receive(r, node, packet, parent, call) ==
  IF r.threw THEN r
  ELSE IF node <= 0 THEN [r EXCEPT !.threw = TRUE]
  ELSE IF nodes[node].fn.kind = "flowOut" THEN [r EXCEPT !.threw = TRUE]
  ELSE
    LET me == Len(r.trace) + 1
        r1 == [r EXCEPT !.trace = Append(@, Entry("receive", node, nodes[node].nodeName, 0,
                                                  packet, parent, call))]
        fn == nodes[node].fn
    IN CASE fn.kind = "pipe" ->
              send(IF OwnerOf(node) = "app"
                     THEN originalEmit(r1, fn.arg, packet, me, call)
                     ELSE flowOriginalEmit(r1, OwnerOf(node), fn.arg, packet, me, call),
                   OutputOrder(nodes[node].outputs), packet, me, call)
         [] fn.kind = "inner" ->
              sendEach(r1, OutputOrder(nodes[node].outputs), Processor(fn.arg, packet), me, call)
         [] fn.kind \in {"flowIn", "flowBoth"} -> flowEmit(r1, fn.arg, "in", packet, me, call)
         [] OTHER -> send(r1, OutputOrder(nodes[node].outputs), packet, me, call)

\* The listeners of one name of a flow used as an element, in the order they
\* were added.
notify(r, ls, packet, parent, call) ==
  IF r.threw \/ ls = <<>> THEN r
  ELSE LET l == Head(ls)
           ran == CASE l.kind = "receive" -> receive(r, l.node, packet, parent, call)
                    [] l.kind = "emitIn" -> flowEmit(r, l.flow, "in", packet, parent, call)
                    [] OTHER -> originalEmit(r, "out", packet, parent, call)
       IN notify(ran, Tail(ls), packet, parent, call)

\* _originalEmit(name, packet), of a flow used as an element
flowOriginalEmit(r, f, name, packet, parent, call) ==
  IF name \in DOMAIN subs[f].on THEN notify(r, subs[f].on[name], packet, parent, call)
  ELSE IF name = "error" THEN [r EXCEPT !.threw = TRUE]
  ELSE r

\* f.emit(event, packet), of a flow used as an element
flowEmit(r, f, event, packet, parent, call) ==
  IF r.threw THEN r
  ELSE IF PipeLookup(subs[f].pipes, event) # 0 /\ packet # Undefined
    THEN receive(r, PipeLookup(subs[f].pipes, event), packet, parent, call)
  ELSE flowOriginalEmit(r, f, event, packet, parent, call)

send(r, outs, packet, me, call) ==
  IF r.threw \/ outs = <<>> THEN r
  ELSE send(receive(r, Head(outs), packet, me, call), Tail(outs), packet, me, call)

\* A function that calls send several times: one send after the other.
sendEach(r, outs, packets, me, call) ==
  IF r.threw \/ packets = <<>> THEN r
  ELSE sendEach(send(r, outs, Head(packets), me, call), outs, Tail(packets), me, call)

\* app.emit(event, packet), overridden: a pipe name with a packet injects into
\* the pipe, anything else is an ordinary event.
emit(r, event, packet, call) ==
  IF PipeLookup(_pipes, event) # 0 /\ packet # Undefined
    THEN receive(r, PipeLookup(_pipes, event), packet, 0, call)
    ELSE originalEmit(r, event, packet, 0, call)

\* EventEmitter.prototype.emit.call(composed, event, packet)
emitOwn(r, event, packet, call) ==
  IF r.threw THEN r ELSE originalEmit(r, event, packet, 0, call)

\* composed.emit(event, packet): 'in' goes to the first flow, then the event is
\* emitted by the composed flow itself.
composedEmit(r, event, packet, call) ==
  emitOwn(IF event = "in" /\ _flows # <<>>
            THEN flowEmit(r, _flows[1], "in", packet, 0, call)
            ELSE r,
          event, packet, call)

\* ------------------------------------------------------ calls on the flow
queueIdle ==
  <<pending, running, pool, workers, taskIdCounter, totalSubmitted, totalCompleted,
    hasErrorListener, events, drainWaiting, drainResolved, drainCalls, term,
    atTerminate, faults, lost, tasks, dispatchLog, lastSubmitAll, user, workerCount,
    created, adapterVars, operatorVars>>

\* The names a caller uses: those of the graph, 'in' and 'out', and one the
\* graph may not have.
RECURSIVE NamesOf(_)
NamesOf(g) ==
  IF g = <<>> THEN {}
  ELSE {Head(g)[e].name : e \in {x \in {1, Len(Head(g))} \cap DOMAIN Head(g) :
                                   Head(g)[x].kind = "string"}}
         \cup NamesOf(Tail(g))

CallNames == NamesOf(graph) \cup {"in", "mid", "out"}

FlowPackets == {Packet(Num(1), "r1"), Packet(Num(2), "r2")}

FlowCall(op, name, packet) ==
  /\ Alive /\ user = "flow"
  /\ Len(called) < MaxFlowCalls
  /\ called' = Append(called, [op |-> op, name |-> name, packet |-> packet])

Ran(r) ==
  /\ trace' = r.trace
  /\ uncaught' = r.threw

\* app.emit(event, packet)
AppEmit(event, packet) ==
  /\ FlowCall("emit", event, packet)
  /\ Ran(emit([trace |-> trace, threw |-> FALSE], event, packet, Len(called) + 1))
  /\ UNCHANGED <<queueIdle, appVars, graph, nodes, _pipes, listeners>>

\* A faulty inject: the pipe is looked up with getPipe, which makes it.
AppInjectCreating(pipeName, packet) ==
  /\ FlowCall("inject", pipeName, packet)
  /\ LET net == getPipe([nodes |-> nodes, pipes |-> _pipes], pipeName) IN
       nodes' = net.nodes /\ _pipes' = net.pipes
  /\ Ran(emit([trace |-> trace, threw |-> FALSE], pipeName, packet, Len(called) + 1))
  /\ UNCHANGED <<queueIdle, appVars, graph, listeners>>

\* app.inject(pipeName, packet): app.emit(pipeName, packet)
AppInject(pipeName, packet) ==
  /\ FlowCall("inject", pipeName, packet)
  /\ Ran(emit([trace |-> trace, threw |-> FALSE], pipeName, packet, Len(called) + 1))
  /\ UNCHANGED <<queueIdle, appVars, graph, nodes, _pipes, listeners>>

\* app.on(name, listener)
AppOn(name) ==
  /\ FlowCall("on", name, Undefined)
  /\ listeners' = MapSet(listeners, name, ListenerCount(name) + 1)
  /\ UNCHANGED <<queueIdle, appVars, uncaught, graph, nodes, _pipes, trace>>

\* app.pipe(name): getPipe(name)
AppPipe(name) ==
  /\ FlowCall("pipe", name, Undefined)
  /\ LET net == getPipe([nodes |-> nodes, pipes |-> _pipes], name) IN
       nodes' = net.nodes /\ _pipes' = net.pipes
  /\ UNCHANGED <<queueIdle, appVars, uncaught, graph, listeners, trace>>

\* ------------------------------------------------------ calls on a node
\* The nodes a caller holds are the pipes (app.pipe(name), app._pipes) and,
\* through node.outputs, every node of the network.
PipeNodes == {_pipes[name] : name \in DOMAIN _pipes} \ {Inherited}

\* The nodes that packets sent by the nodes of S reach.
RECURSIVE Downstream(_, _)
Downstream(S, k) ==
  IF k = 0 THEN S
  ELSE Downstream(S \cup UNION {{nodes[n].outputs[i] : i \in 1..Len(nodes[n].outputs)} : n \in S},
                  k - 1)

NodeCall(op, node, next) ==
  /\ Alive /\ user = "flow"
  /\ Len(called) < MaxFlowCalls
  /\ called' = Append(called, [op |-> op, name |-> nodes[node].nodeName,
                                packet |-> Undefined, node |-> node, next |-> next])

\* node.connect(next), by a caller that closes no cycle (a packet sent round
\* a cycle never comes to rest).
NodeConnect(node, next) ==
  /\ NodeCall("connect", node, next)
  /\ node \notin Downstream({next}, Len(nodes))
  /\ nodes' = connect([nodes |-> nodes], node, next).nodes
  /\ UNCHANGED <<queueIdle, appVars, uncaught, graph, _pipes, listeners, trace>>

\* node.disconnect(next)
NodeDisconnect(node, next) ==
  /\ NodeCall("disconnect", node, next)
  /\ nodes' = disconnect([nodes |-> nodes], node, next).nodes
  /\ UNCHANGED <<queueIdle, appVars, uncaught, graph, _pipes, listeners, trace>>

\* ------------------------------------------------------------ the graphs
Fns == {"inc", "dbl"}
FnSeqs == UNION {[1..n -> Fns] : n \in 1..MaxTransforms}

Flat(fns) == [i \in 1..Len(fns) |-> FunctionEl(fns[i])]
Line(source, middle, dest) == <<StringEl(source)>> \o middle \o <<StringEl(dest)>>

\* ['in', t1, ..., tN, 'out'], the same with series(...), [t1, ..., tN] and
\* parallel(...), and the interiors with an array at a series position.
Middles ==
  {Flat(fns) : fns \in FnSeqs}
    \cup {<<ArrayEl(m, fns)>> : m \in {"", "_parallel", "_series"}, fns \in FnSeqs}
    \cup {<<FunctionEl(a), ArrayEl("", <<"inc", "dbl">>), FunctionEl(d)>> : a, d \in Fns}
    \cup {<<FunctionEl("drop")>>, <<ArrayEl("", <<"inc", "drop">>)>>}

GraphInputs ==
  {<<Line("in", m, "out")>> : m \in Middles}
    \cup {<<Line("in", m, "mid"), Line("mid", <<FunctionEl("inc")>>, "out")>> :
            m \in {<<ArrayEl("", fns)>> : fns \in FnSeqs}}
    \cup {<<Line("in", <<FunctionEl("inc")>>, "mid"), Line("in", <<FunctionEl("dbl")>>, "out"),
            Line("mid", <<>>, "out")>>,
          <<Line("in", <<>>, "out"), Line("in", <<>>, "out")>>,
          <<Line("in", <<FunctionEl("drop")>>, "out"), Line("in", <<FunctionEl("inc")>>, "mid")>>,
          <<Line("in", <<FunctionEl("inc"), FunctionEl("drop"), FunctionEl("dbl")>>, "out")>>,
          <<Line("in", <<>>, "error"), Line("error", <<>>, "out")>>,
          <<Line("constructor", <<FunctionEl("inc")>>, "out")>>,
          <<Line("in", <<FunctionEl("inc")>>, "constructor")>>}

\* No task queue is in use.
NoWorkers ==
  /\ workerCount = 0
  /\ pool = <<>>
  /\ workers = <<>>
  /\ user = "flow"
  /\ created = FALSE
  /\ hasErrorListener = FALSE

NoQueue ==
  /\ InitQueue
  /\ workerCount = 0
  /\ pool = <<>>
  /\ workers = <<>>
  /\ user = "flow"
  /\ created = FALSE
  /\ hasErrorListener = FALSE

\* flow(graph) has returned or thrown: what it has left.
Returned(net) ==
  /\ nodes = net.nodes
  /\ _pipes = net.pipes
  /\ subs = net.subs
  /\ _producers = net.producers
  /\ invoked = net.invoked
  /\ _cleanups = <<>>
  /\ _flows = <<>>
  /\ listeners = EmptyMap
  /\ trace = <<>>
  /\ called = <<>>
  /\ NoOperator

\* flow(graph) has returned.
InitFlow ==
  /\ NoQueue
  /\ graph \in GraphInputs
  /\ Returned(flow(graph))

NextFlow ==
  \/ \E event \in CallNames, packet \in FlowPackets : AppEmit(event, packet)
  \/ \E name \in CallNames, packet \in FlowPackets : AppInject(name, packet)
  \/ \E name \in CallNames : AppOn(name)
  \/ \E name \in CallNames : AppPipe(name)

SpecFlow == InitFlow /\ [][NextFlow]_vars

\* ------------------------------------------- producers, sinks, flows in lines
MaxAppCalls == 3

LifecycleCall(op, name, packet) ==
  /\ Alive /\ user = "flow"
  /\ Len(called) < MaxAppCalls
  /\ called' = Append(called, [op |-> op, name |-> name, packet |-> packet])

\* app.start(): the producers, then app.emit('start')
AppStart ==
  /\ LifecycleCall("start", "", Undefined)
  /\ LET s == startOp([invoked |-> invoked, cleanups |-> _cleanups], _producers, "app",
                      Len(called) + 1)
     IN invoked' = s.invoked /\ _cleanups' = s.cleanups
  /\ Ran(emit([trace |-> trace, threw |-> FALSE], "start", Undefined, Len(called) + 1))
  /\ UNCHANGED <<queueIdle, graph, nodes, _pipes, listeners, subs, _flows, _producers>>

\* app.stop(): the cleanups, then app.emit('stop')
AppStop ==
  /\ LifecycleCall("stop", "", Undefined)
  /\ LET s == stopOp([invoked |-> invoked, cleanups |-> _cleanups], "app", Len(called) + 1)
     IN invoked' = s.invoked /\ _cleanups' = s.cleanups
  /\ Ran(emit([trace |-> trace, threw |-> FALSE], "stop", Undefined, Len(called) + 1))
  /\ UNCHANGED <<queueIdle, graph, nodes, _pipes, listeners, subs, _flows, _producers>>

\* The calls of the producers of a flow that no cleanup has answered yet.
Running(app, node) ==
  {i \in 1..Len(invoked) :
     /\ invoked[i].kind = "producer" /\ invoked[i].app = app /\ invoked[i].node = node
     /\ ~\E j \in 1..Len(invoked) :
           /\ invoked[j].kind = "cleanup" /\ invoked[j].app = app
           /\ invoked[j].node = node /\ invoked[j].of = invoked[i].call}

\* A producer that was started calls the send it was given (from a timer):
\* packet => node.receive(packet).
ProducerSends(k, packet) ==
  /\ LifecycleCall("send", _producers[k].fn, packet)
  /\ Running("app", _producers[k].node) # {}
  /\ Ran(receive([trace |-> trace, threw |-> FALSE], _producers[k].node, packet, 0,
                 Len(called) + 1))
  /\ UNCHANGED <<queueIdle, appVars, graph, nodes, _pipes, listeners>>

\* A producer of a flow used as a source, started when the line was compiled,
\* calls its send.
SubProducerSends(f, k, packet) ==
  /\ LifecycleCall("send", subs[f].producers[k].fn, packet)
  /\ Running(f, subs[f].producers[k].node) # {}
  /\ Ran(receive([trace |-> trace, threw |-> FALSE], subs[f].producers[k].node, packet, 0,
                 Len(called) + 1))
  /\ UNCHANGED <<queueIdle, appVars, graph, nodes, _pipes, listeners>>

\* f.emit(event, packet), by whoever holds the flow that is used as an element
SubEmit(f, event, packet) ==
  /\ LifecycleCall("emit", f, packet)
  /\ Ran(flowEmit([trace |-> trace, threw |-> FALSE], f, event, packet, 0, Len(called) + 1))
  /\ UNCHANGED <<queueIdle, appVars, graph, nodes, _pipes, listeners>>

\* Lines with a producer, a sink or a flow at an end, flows and factories
\* inside, and lines that are no lines.
AppGraphs ==
  {<<<<FunctionEl("tick"), StringEl("out")>>>>,
   <<<<FunctionEl("inject"), FunctionEl("inc"), StringEl("out")>>>>,
   <<<<FunctionEl("tick"), StringEl("out")>>, <<FunctionEl("quiet"), StringEl("mid")>>>>,
   <<<<StringEl("in"), FunctionEl("add")>>>>,
   <<<<StringEl("in"), FunctionEl("dbl"), FunctionEl("inc")>>>>,
   <<<<StringEl("in"), FlowEl("f1"), StringEl("out")>>>>,
   <<<<StringEl("in"), FlowEl("f1"), FlowEl("f2"), StringEl("out")>>>>,
   <<<<StringEl("in"), FunctionEl("inc"), FlowEl("f2"), FunctionEl("inc"), StringEl("out")>>>>,
   <<<<StringEl("in"), ArrayEl("", <<"f1", "dbl">>), StringEl("out")>>>>,
   <<<<StringEl("in"), ArrayEl("_series", <<"f1">>), StringEl("out")>>>>,
   <<<<FlowEl("f1"), StringEl("out")>>>>,
   <<<<FlowEl("f3"), FunctionEl("inc"), StringEl("out")>>>>,
   <<<<StringEl("in"), FlowEl("f2")>>>>,
   <<<<StringEl("in"), FunctionEl("inc"), FlowEl("f2")>>>>,
   <<<<StringEl("in"), FunctionEl("add5"), FunctionEl("add"), FunctionEl("add5"),
       StringEl("out")>>>>,
   <<<<StringEl("in"), ArrayEl("", <<"add", "add5">>), StringEl("out")>>>>,
   <<<<StringEl("in"), ArrayEl("_series", <<"add", "add">>), StringEl("out")>>>>,
   <<NotAnArray, Line("in", <<FunctionEl("inc")>>, "out")>>,
   <<<<StringEl("mid")>>, Line("in", <<FunctionEl("inc")>>, "out"), <<>>>>,
   <<<<OtherEl, StringEl("mid")>>, Line("in", <<FunctionEl("inc")>>, "out")>>,
   <<Line("in", <<FunctionEl("inc")>>, "out"), <<OtherEl, FunctionEl("add"), StringEl("mid")>>>>,
   <<<<StringEl("in"), OtherEl>>, Line("mid", <<FunctionEl("inc")>>, "out")>>,
   <<<<StringEl("in"), FunctionEl("inc"), OtherEl>>>>}

\* flow(graph) has returned or thrown.
ReturnedOrThrew(net) == Returned(net) /\ uncaught = net.threw

InitApp ==
  /\ FreshQueue /\ NoWorkers
  /\ graph \in AppGraphs
  /\ ReturnedOrThrew(flow(graph))

NextApp ==
  \/ \E event \in CallNames, packet \in FlowPackets : AppEmit(event, packet)
  \/ \E name \in CallNames, packet \in FlowPackets : AppInject(name, packet)
  \/ \E name \in CallNames : AppOn(name)
  \/ AppStart
  \/ AppStop
  \/ \E k \in 1..Len(_producers), packet \in FlowPackets : ProducerSends(k, packet)
  \/ \E f \in DOMAIN subs, packet \in FlowPackets : SubEmit(f, "in", packet)
  \/ \E f \in DOMAIN subs, packet \in FlowPackets :
       \E k \in 1..Len(subs[f].producers) : SubProducerSends(f, k, packet)

SpecApp == InitApp /\ [][NextApp]_vars

\* ---------------------------------------------------------------- SpecV1
\* inject(pipeName, packet), first engine: pipes[pipeName].receive(packet), or
\* a warning when there is no such pipe
InjectV1(pipeName, packet) ==
  /\ FlowCall("inject", pipeName, packet)
  /\ Ran(IF PipeLookup(_pipes, pipeName) = 0 THEN [trace |-> trace, threw |-> FALSE]
         ELSE receive([trace |-> trace, threw |-> FALSE], PipeLookup(_pipes, pipeName),
                      packet, 0, Len(called) + 1))
  /\ UNCHANGED <<queueIdle, appVars, graph, nodes, _pipes, listeners>>

\* start(), first engine: every producer is called with its send; what it
\* returns is dropped.
StartV1 ==
  /\ LifecycleCall("start", "", Undefined)
  /\ invoked' = invoked \o
                  [k \in 1..Len(_producers) |->
                     Invocation("producer", _producers[k].fn, "send", "app", 0,
                                _producers[k].node, 0, Len(called) + 1)]
  /\ UNCHANGED <<queueIdle, graph, nodes, _pipes, listeners, trace, uncaught, subs, _flows,
                 _producers, _cleanups>>

\* stop(), first engine: nothing (cleanup is not implemented)
StopV1 ==
  /\ LifecycleCall("stop", "", Undefined)
  /\ UNCHANGED <<queueIdle, graph, nodes, _pipes, listeners, trace, uncaught, appVars>>

\* What stands between the ends of a line: functions and arrays of functions.
V1Items ==
  {FunctionEl(f) : f \in Fns} \cup {ArrayEl("", fns) : fns \in [1..2 -> Fns]}

V1Middles == {<<>>} \cup {<<a>> : a \in V1Items} \cup [1..2 -> V1Items]

V1Graphs ==
  {<<Line("in", middle, "out")>> : middle \in V1Middles}
    \cup {<<<<FunctionEl("tick"), FunctionEl("inc"), FunctionEl("dbl"), StringEl("out")>>>>,
          <<Line("in", <<FunctionEl("inc"), FunctionEl("dbl")>>, "out"),
            <<StringEl("out"), FunctionEl("inc")>>>>}

InitV1 ==
  /\ NoQueue
  /\ graph \in V1Graphs
  /\ Returned(flowV1(graph))

NextV1 ==
  \/ \E name \in CallNames, packet \in FlowPackets : InjectV1(name, packet)
  \/ StartV1
  \/ StopV1
  \/ \E k \in 1..Len(_producers), packet \in FlowPackets : ProducerSends(k, packet)

SpecV1 == InitV1 /\ [][NextV1]_vars

\* ---------------------------------------------------------------- SpecCompose
\* composed.emit(event, packet)
ComposedEmit(event, packet) ==
  /\ FlowCall("emit", event, packet)
  /\ Ran(composedEmit([trace |-> trace, threw |-> FALSE], event, packet, Len(called) + 1))
  /\ UNCHANGED <<queueIdle, appVars, graph, nodes, _pipes, listeners>>

\* The flows given to compose: none, one, or several different ones.
ComposeInputs ==
  {<<>>} \cup {<<f>> : f \in DOMAIN SubGraphs}
         \cup {s \in [1..2 -> DOMAIN SubGraphs] : s[1] # s[2]}

\* compose(...flows) has returned.
Composed(net, flows) ==
  /\ nodes = net.nodes
  /\ subs = net.subs
  /\ _flows = flows
  /\ invoked = net.invoked
  /\ _pipes = EmptyMap /\ _producers = <<>> /\ _cleanups = <<>>
  /\ listeners = EmptyMap /\ trace = <<>> /\ called = <<>>
  /\ NoOperator

InitCompose ==
  /\ NoQueue
  /\ graph = <<>>
  /\ \E flows \in ComposeInputs : Composed(composed(flows), flows)

NextCompose ==
  \/ \E event \in CallNames, packet \in FlowPackets : ComposedEmit(event, packet)
  \/ \E name \in CallNames : AppOn(name)
  \/ \E f \in DOMAIN subs, packet \in FlowPackets : SubEmit(f, "in", packet)

SpecCompose == InitCompose /\ [][NextCompose]_vars

\* ---------------------------------------------------------------- SpecTake
\* take(options) of the node library: the processor it returns, fed with
\* packets one after the other.
MaxPackets == 4
MaxCount == 3

\* options: {} or { count }
TakeOptions == {[has |-> FALSE, count |-> 0]} \cup {[has |-> TRUE, count |-> n] : n \in 0..MaxCount}

\* const { count = 1 } = options
CountOf(options) == IF options.has THEN options.count ELSE 1

\* A faulty take: the comparison lets one more packet through.
takeInclusive(n, k, packet) ==
  IF k <= n THEN [taken |-> k + 1, out |-> <<packet>>] ELSE [taken |-> k, out |-> <<>>]

\* (send, packet) => { if (taken < count) { taken++; send(packet); } }, with
\* count = n and taken = k: the new taken, and what is passed to send.
take(n, k, packet) ==
  IF k < n THEN [taken |-> k + 1, out |-> <<packet>>] ELSE [taken |-> k, out |-> <<>>]

\* The processor is called with a packet.
TakeReceives(packet) ==
  /\ Len(received) < MaxPackets
  /\ received' = Append(received, packet)
  /\ taken' = take(count, taken, packet).taken
  /\ sent' = sent \o take(count, taken, packet).out
  /\ UNCHANGED <<queueVars, pendingCallbacks, results, expectedCount, graph, nodes, _pipes,
                 listeners, trace, called, appVars, count, pairwiseVars, switchVars,
                 delayVars>>

\* take(options) has returned.
InitTake ==
  /\ NoQueue /\ NoGraph
  /\ \E options \in TakeOptions : count = CountOf(options)
  /\ taken = 0
  /\ NoPairwise /\ NoSwitch /\ NoDelay

NextTake == \E packet \in FlowPackets : TakeReceives(packet)

SpecTake == InitTake /\ [][NextTake]_vars

\* ------------------------------------------------------------ SpecPairwise
\* What the queue and the flow variables are while a processor of the node
\* library is called directly.
processorIdle ==
  <<queueVars, pendingCallbacks, results, expectedCount, graph, nodes, _pipes, listeners,
    trace, called, appVars>>

\* x.payload !== undefined ? x.payload : x
PayloadOr(packet) == IF packet.payload = Undefined THEN ObjectValue ELSE packet.payload

\* A faulty pairwise: the pair is [current, previous].
pairwiseSwapped(prev, has, packet) ==
  [previous |-> packet, hasPrevious |-> TRUE,
   out |-> IF has
             THEN <<[packet EXCEPT !.payload = ArrayValue(<<PayloadOr(packet), PayloadOr(prev)>>)]>>
             ELSE <<>>]

\* pairwise(): the processor, with previous = prev and hasPrevious = has: the
\* new closure, and what is passed to send ({ ...packet, payload: [prev, curr] }).
pairwise(prev, has, packet) ==
  [previous |-> packet, hasPrevious |-> TRUE,
   out |-> IF has
             THEN <<[packet EXCEPT !.payload = ArrayValue(<<PayloadOr(prev), PayloadOr(packet)>>)]>>
             ELSE <<>>]

\* Packets with a payload, and one without.
PairwisePackets == FlowPackets \cup {Packet(Undefined, "r3")}

\* The processor is called with a packet.
PairwiseReceives(packet) ==
  /\ Len(received) < MaxPackets
  /\ received' = Append(received, packet)
  /\ previous' = pairwise(previous, hasPrevious, packet).previous
  /\ hasPrevious' = pairwise(previous, hasPrevious, packet).hasPrevious
  /\ sent' = sent \o pairwise(previous, hasPrevious, packet).out
  /\ UNCHANGED <<processorIdle, takeVars, switchVars, delayVars>>

\* pairwise() has returned.
InitPairwise ==
  /\ NoQueue /\ NoGraph
  /\ previous = NoPacket /\ hasPrevious = FALSE
  /\ NoTake /\ NoSwitch /\ NoDelay

NextPairwise == \E packet \in PairwisePackets : PairwiseReceives(packet)

SpecPairwise == InitPairwise /\ [][NextPairwise]_vars

\* -------------------------------------------------------------- SpecSwitch
\* A rule of the switch node: its type, the value it compares with, and the
\* requestId its send property sets ("" when the rule has no send property).
Rule(type, value, to) == [type |-> type, value |-> value, to |-> to]

\* value < rule.value and the like: a comparison with undefined is false.
Compared(type, a, b) ==
  /\ a.t = "number" /\ b.t = "number"
  /\ CASE type = "lt" -> a.n < b.n
       [] type = "gt" -> a.n > b.n
       [] type = "lte" -> a.n <= b.n
       [] OTHER -> a.n >= b.n

\* switch (rule.type): isMatch for one rule, 'matched' being whether a rule
\* before it matched this packet.
isMatch(rule, value, matched) ==
  CASE rule.type = "eq" -> value = rule.value
    [] rule.type = "neq" -> value # rule.value
    [] rule.type \in {"lt", "gt", "lte", "gte"} -> Compared(rule.type, value, rule.value)
    [] rule.type = "null" -> value = Undefined
    [] rule.type = "nnull" -> value # Undefined
    [] rule.type = "else" -> ~matched
    [] OTHER -> FALSE

\* rule.send !== undefined ? { ...packet, ...rule.send } : packet
Routed(rule, packet) == IF rule.to = "" THEN packet ELSE [packet EXCEPT !.requestId = rule.to]

\* A faulty switch: it goes on after the first match whatever checkall is.
RECURSIVE switchAll(_, _, _, _)
switchAll(rs, all, packet, matched) ==
  IF rs = <<>> THEN <<>>
  ELSE IF isMatch(Head(rs), packet.payload, matched)
    THEN <<Routed(Head(rs), packet)>> \o switchAll(Tail(rs), all, packet, TRUE)
  ELSE switchAll(Tail(rs), all, packet, matched)

\* switchNode(options): the processor's loop over the rules rs, for the
\* property 'payload': what is passed to send, in order.
RECURSIVE switchNode(_, _, _, _)
switchNode(rs, all, packet, matched) ==
  IF rs = <<>> THEN <<>>
  ELSE IF isMatch(Head(rs), packet.payload, matched)
    THEN <<Routed(Head(rs), packet)>>
           \o (IF all THEN switchNode(Tail(rs), all, packet, TRUE) ELSE <<>>)
  ELSE switchNode(Tail(rs), all, packet, matched)

RuleInputs ==
  {Rule("gte", Num(2), ""), Rule("lt", Num(2), "low"), Rule("eq", Num(1), ""),
   Rule("null", Undefined, ""), Rule("else", Undefined, "other")}

RulesInputs == {<<>>} \cup [1..1 -> RuleInputs] \cup [1..2 -> RuleInputs]

SwitchPackets ==
  {Packet(Num(1), "r1"), Packet(Num(2), "r2"), Packet(Num(3), "r3"), Packet(Undefined, "r4")}

\* The processor is called with a packet.
SwitchReceives(packet) ==
  /\ Len(received) < MaxPackets
  /\ received' = Append(received, packet)
  /\ sent' = sent \o switchNode(rules, checkall, packet, FALSE)
  /\ UNCHANGED <<processorIdle, takeVars, pairwiseVars, switchVars, delayVars>>

\* switchNode(options) has returned.
InitSwitch ==
  /\ NoQueue /\ NoGraph
  /\ rules \in RulesInputs
  /\ checkall \in BOOLEAN
  /\ NoTake /\ NoPairwise /\ NoDelay

NextSwitch == \E packet \in SwitchPackets : SwitchReceives(packet)

SpecSwitch == InitSwitch /\ [][NextSwitch]_vars

\* --------------------------------------------------------------- SpecDelay
\* The closure of the processor and the timers it has set, as one value.
\* Entries of queue and sent are a packet with its arrival number.
DelayCur ==
  [queue |-> queue, processing |-> processing, timers |-> timers,
   clock |-> clock, sent |-> sent, sentAt |-> sentAt]

DelayCommit(d) ==
  /\ queue' = d.queue
  /\ processing' = d.processing
  /\ timers' = d.timers
  /\ clock' = d.clock
  /\ sent' = d.sent
  /\ sentAt' = d.sentAt

\* setTimeout(processQueue, interval) and setTimeout(() => send(packet), delayMs)
ProcessQueueTimer == [kind |-> "processQueue", packet |-> NoPacket, seq |-> 0]
SendTimer(entry) == [kind |-> "send", packet |-> entry.packet, seq |-> entry.seq]

\* send(packet), noting when it happens.
delaySend(d, entry) ==
  [d EXCEPT !.sent = Append(@, entry), !.sentAt = Append(@, d.clock)]

\* processQueue()
processQueue(d) ==
  IF Len(d.queue) > 0
    THEN [delaySend(d, Head(d.queue)) EXCEPT !.queue = Tail(@),
                                             !.timers = Append(@, ProcessQueueTimer)]
    ELSE [d EXCEPT !.processing = FALSE]

\* A faulty limiter: a packet that finds the limiter active is sent at once.
delayUnlimited(d, entry) ==
  IF rate # 0
    THEN IF drop /\ d.processing THEN d
         ELSE IF d.processing THEN delaySend(d, entry)
         ELSE processQueue([d EXCEPT !.queue = Append(@, entry), !.processing = TRUE])
    ELSE [d EXCEPT !.timers = Append(@, SendTimer(entry))]

\* delay(options): the processor, called with a packet.
delay(d, entry) ==
  IF rate # 0
    THEN IF drop /\ d.processing THEN d
         ELSE IF d.processing THEN [d EXCEPT !.queue = Append(@, entry)]
         ELSE processQueue([d EXCEPT !.queue = Append(@, entry), !.processing = TRUE])
    ELSE [d EXCEPT !.timers = Append(@, SendTimer(entry))]

\* options.rate: not given (0 here, as falsy as null) or two packets a second.
RateInputs == {0, 2}

DelayReceives(packet) ==
  /\ Len(received) < MaxPackets
  /\ received' = Append(received, packet)
  /\ busyArrivals' = IF processing THEN busyArrivals \cup {Len(received) + 1} ELSE busyArrivals
  /\ DelayCommit(delay(DelayCur, [packet |-> packet, seq |-> Len(received) + 1]))
  /\ UNCHANGED <<queueVars, pendingCallbacks, results, expectedCount, graph, nodes, _pipes,
                 listeners, trace, called, appVars, takeVars, pairwiseVars, switchVars,
                 rate, drop>>

\* The timeout that is due first fires: processQueue, or the delayed send.
TimerFires ==
  /\ timers # <<>>
  /\ LET d == [DelayCur EXCEPT !.timers = Tail(@), !.clock = @ + 1] IN
       DelayCommit(IF Head(timers).kind = "processQueue" THEN processQueue(d)
                   ELSE delaySend(d, [packet |-> Head(timers).packet, seq |-> Head(timers).seq]))
  /\ UNCHANGED <<queueVars, pendingCallbacks, results, expectedCount, received, graph, nodes,
                 _pipes, listeners, trace, called, appVars, takeVars, pairwiseVars,
                 switchVars, rate, drop, busyArrivals>>

\* delay(options) has returned.
InitDelay ==
  /\ NoQueue /\ NoGraph
  /\ rate \in RateInputs
  /\ drop \in BOOLEAN
  /\ queue = <<>> /\ processing = FALSE
  /\ timers = <<>> /\ clock = 0 /\ sentAt = <<>> /\ busyArrivals = {}
  /\ NoTake /\ NoPairwise /\ NoSwitch

NextDelay ==
  \/ \E packet \in FlowPackets : DelayReceives(packet)
  \/ TimerFires

\* A timeout that was set fires when it is due.
SpecDelay == InitDelay /\ [][NextDelay]_vars /\ WF_vars(TimerFires)

\* A caller that also connects and disconnects the nodes of a compiled flow.
NodeGraphs ==
  {<<Line("in", <<>>, "out")>>,
   <<Line("in", <<>>, "out"), Line("in", <<>>, "out")>>,
   <<Line("in", <<FunctionEl("inc")>>, "out"), Line("in", <<>>, "mid")>>,
   <<Line("in", <<ArrayEl("", <<"inc", "dbl">>)>>, "out")>>}

InitNode ==
  /\ NoQueue
  /\ graph \in NodeGraphs
  /\ Returned(flow(graph))

NextNode ==
  \/ \E name \in CallNames, packet \in FlowPackets : AppInject(name, packet)
  \/ \E node \in PipeNodes, next \in 1..Len(nodes) : NodeConnect(node, next)
  \/ \E node \in PipeNodes, next \in 1..Len(nodes) : NodeDisconnect(node, next)

SpecNode == InitNode /\ [][NextNode]_vars

\* queue.stats()
Stats ==
  [pending |-> Len(pending), running |-> Cardinality(DOMAIN running),
   available |-> Len(pool), totalSubmitted |-> totalSubmitted,
   totalCompleted |-> totalCompleted]

\* ----------------------------------------------------------------- claims
InPool(p, w) == \E i \in 1..Len(p) : p[i] = w
EventsOf(type) == {i \in 1..Len(events) : events[i].type = type}
TaskEvents(k) == {i \in 1..Len(events) : events[i].seq = k /\ events[i].type \in {"result", "error"}}
Outcome(k) == Handler(tasks[k].data)

\* C1: a drain() promise is resolved exactly while the queue is quiescent
\* (totalSubmitted = totalCompleted and nothing pending): no promise is still
\* waiting in a quiescent state, runs with failed tasks included.
C1_DrainResolvesWhenQuiescent == Quiescent => drainWaiting = 0

\* C2: totalSubmitted >= totalCompleted in every state, and every 'drain'
\* emission happens with totalSubmitted = totalCompleted and nothing pending.
C2_DrainOnlyWhenQuiescent ==
  /\ totalSubmitted >= totalCompleted
  /\ \A i \in EventsOf("drain") :
       events[i].submitted = events[i].completed /\ events[i].pending = 0

\* C2 witness: a run with a failed task and a finished one has emitted 'drain'.
C2_Witness ==
  /\ EventsOf("drain") # {}
  /\ EventsOf("error") # {}
  /\ EventsOf("result") # {}

\* C3: tasks go to workers in submission order; every hand-over takes a
\* worker that has no task and records the task's id in running; submitAll
\* submits in list order and returns the ids in that order.
C3_FifoDispatch ==
  /\ \A i, j \in 1..Len(dispatchLog) :
       i < j => dispatchLog[i].seq < dispatchLog[j].seq
  /\ \A i \in 1..Len(dispatchLog) : dispatchLog[i].free /\ dispatchLog[i].recorded
  /\ lastSubmitAll.called =>
       /\ Len(lastSubmitAll.ids) = Len(lastSubmitAll.tasks)
       /\ \A i \in 1..Len(lastSubmitAll.tasks) :
            LET given == lastSubmitAll.tasks[i]
                made == tasks[lastSubmitAll.first + i - 1]
            IN /\ made.data = given.data
               /\ lastSubmitAll.ids[i] = made.id
               /\ given.hasId => lastSubmitAll.ids[i] = given.id
               /\ (~given.hasId /\ i > 1 /\ ~lastSubmitAll.tasks[i - 1].hasId)
                    => lastSubmitAll.ids[i] = lastSubmitAll.ids[i - 1] + 1

\* C3 witness: two tasks waited together behind a busy worker, the older one
\* has been handed over and the younger one still waits, after a submitAll.
C3_Witness ==
  /\ lastSubmitAll.called
  /\ Len(dispatchLog) >= 2
  /\ Len(pending) >= 1
  /\ lastSubmitAll.first + 1 = Len(tasks)

\* C4: a task whose handler raised yields one 'error' event with its id and
\* no 'result' event; a task whose handler returned yields one 'result'
\* event with its id and no 'error' event, whatever the description or value.
C4_EventMatchesOutcome ==
  \A k \in 1..Len(tasks) :
    /\ Cardinality(TaskEvents(k)) <= 1
    /\ \A i \in TaskEvents(k) :
         /\ events[i].id = tasks[k].id
         /\ events[i].type = (IF Outcome(k).threw THEN "error" ELSE "result")

\* C5: after the reply of a task whose handler raised has been processed, the
\* worker is back in the pool or has the next task, no worker has been added
\* and the main thread goes on.
C5_FailureKeepsWorker ==
  [][\A w \in 1..Len(workers) :
       (/\ workers[w].job # NoTask
        /\ Handler(workers[w].job.data).threw
        /\ totalCompleted' = totalCompleted + 1
        /\ workers'[w].job # workers[w].job)
       => /\ InPool(pool', w) \/ workers'[w].job # NoTask
          /\ Len(workers') = Len(workers)
          /\ ~uncaught']_vars

\* C6: after an execution-unit fault the idle workers and the busy workers,
\* as queue.stats() counts them, add up to the configured pool size again.
C6_PoolSizeRestored ==
  (faults > 0 /\ term = "none") => Stats.available + Stats.running = workerCount

\* C7: a task that was in flight on a faulted worker is handed over once and
\* never again, produces neither a 'result' nor an 'error' event, and is not
\* counted as completed.
C7_LostTaskStaysLost ==
  /\ \A k \in lost :
       /\ TaskEvents(k) = {}
       /\ Cardinality({i \in 1..Len(dispatchLog) : dispatchLog[i].seq = k}) = 1
       /\ \A i \in 1..Len(pending) : pending[i].seq # k
       /\ \A w \in 1..Len(workers) : workers[w].job.seq # k
  /\ totalCompleted + Cardinality(lost) <= totalSubmitted

\* C7 witness: a task was lost to a fault and a task submitted after it has
\* produced its event.
C7_Witness ==
  /\ lost # {}
  /\ \E k \in lost : \E i \in 1..Len(events) :
       events[i].type \in {"result", "error"} /\ events[i].seq > k

\* C8: when terminate() completes, every worker whose thread ran at the call
\* has been stopped, and pending, running and the pool are empty.
C8_TerminateStopsAll ==
  [][(term = "stopping" /\ term' = "done")
       => /\ \A w \in atTerminate : workers'[w].thread # "running"
          /\ pending' = <<>> /\ running' = EmptyMap /\ pool' = <<>>]_vars

\* C9: in the per-packet adapter every forwarded packet keeps the metadata of
\* the packet that submitted its task, and for a task whose handler returned
\* it is that packet with only payload replaced by the handler's result for
\* that packet's payload; no task forwards twice.
SentOf(k) == {i \in 1..Len(sent) : sent[i].seq = k}

C9_ResultKeepsPacket ==
  \A k \in 1..Len(received) :
    /\ Cardinality(SentOf(k)) <= 1
    /\ \A i \in SentOf(k) :
         /\ sent[i].packet.requestId = received[k].requestId
         /\ ~Handler(received[k].payload).threw =>
              sent[i].packet =
                [received[k] EXCEPT !.payload = Handler(received[k].payload).value]

\* C9 witness: two packets with different payloads and metadata were
\* forwarded in the reverse of their arrival order.
C9_Witness ==
  /\ Len(sent) = 2
  /\ sent[1].seq = 2 /\ sent[2].seq = 1
  /\ received[1].requestId # received[2].requestId
  /\ ~Handler(received[1].payload).threw /\ ~Handler(received[2].payload).threw
  /\ sent[1].packet.payload # sent[2].packet.payload

\* C10: once the reply of a task whose handler raised has been processed, the
\* adapter has forwarded exactly one packet for it: the original packet with
\* an error field added and nothing else changed.
C10_ErrorKeepsPacket ==
  \A k \in 1..Len(received) :
    (Handler(received[k].payload).threw /\ TaskEvents(k) # {})
      => /\ Cardinality(SentOf(k)) = 1
         /\ \A i \in SentOf(k) :
              /\ sent[i].packet.error # Undefined
              /\ sent[i].packet = [received[k] EXCEPT !.error = sent[i].packet.error]

\* C11: in the per-packet adapter every packet has submitted exactly one task,
\* carrying its payload; while no worker has faulted a packet has been
\* forwarded at most once, and exactly once as soon as its task's reply has
\* been processed; when every task has completed the correlation table is
\* empty.
C11_OnePacketOneTask ==
  /\ Len(tasks) = Len(received) /\ totalSubmitted = Len(received)
  /\ \A k \in 1..Len(received) : tasks[k].data = DataOf(received[k])
  /\ faults = 0 =>
       \A k \in 1..Len(received) :
         Cardinality(SentOf(k)) = (IF TaskEvents(k) = {} THEN 0 ELSE 1)
  /\ Quiescent => DOMAIN pendingCallbacks = {}

\* C11 witness: three packets, no fault, every task done: one was forwarded
\* with an error field and one with a result.
C11_Witness ==
  /\ faults = 0 /\ Len(received) = 3 /\ Quiescent /\ Len(sent) = 3
  /\ \E i \in 1..Len(sent) : sent[i].packet.error # Undefined
  /\ \E i \in 1..Len(sent) : sent[i].packet.error = Undefined

\* C12: the per-packet adapter can forward a later packet before an earlier
\* one, and it does so only on a queue with two or more workers.
C12_ReorderNeedsTwoWorkers ==
  \A i, j \in 1..Len(sent) :
    (i < j /\ sent[i].seq > sent[j].seq) => workerCount >= 2

\* C12 witness: with no fault, the packet that arrived second has been
\* forwarded and the packet that arrived first is still with its worker.
C12_Witness ==
  /\ faults = 0 /\ workerCount >= 2
  /\ Len(sent) = 1 /\ sent[1].seq = 2
  /\ \E w \in 1..Len(workers) : workers[w].job.seq = 1

\* The handler's value for every item of a packet, in index order, when the
\* handler returns for each of them.
Returns(packet) == \A i \in 1..Len(ItemsOf(packet)) : ~Handler(ItemsOf(packet)[i]).threw
Mapped(packet) ==
  [packet EXCEPT !.payload =
     ArrayValue([i \in 1..Len(ItemsOf(packet)) |-> Handler(ItemsOf(packet)[i]).value])]

\* C13: for the first packet of a batch adapter, with a handler that returns
\* for each item: nothing is forwarded before all N replies are in, then one
\* packet is forwarded, the original with payload [f(x1), ..., f(xN)] in index
\* order, whatever the order of the replies.
C13_BatchOrderPreserved ==
  (Len(received) = 1 /\ Returns(received[1])) =>
    /\ Len(sent) = (IF totalCompleted = Len(ItemsOf(received[1])) THEN 1 ELSE 0)
    /\ \A i \in 1..Len(sent) : sent[i].packet = Mapped(received[1])

\* C13 witness: a packet of three different items has been forwarded and the
\* reply for its first item came last.
C13_Witness ==
  /\ Len(received) = 1 /\ Len(ItemsOf(received[1])) = 3 /\ Len(sent) = 1
  /\ events[Len(events) - 2].type = "result" /\ events[Len(events) - 2].id = 1

\* C14: every packet fed to a batch adapter is forwarded at most once, as the
\* original packet carrying the handler's values for its own items, and
\* exactly once when all the tasks submitted so far have completed.
C14_OnePacketPerBatch ==
  \A k \in 1..Len(received) :
    Returns(received[k]) =>
      /\ Cardinality(SentOf(k)) <= 1
      /\ \A i \in SentOf(k) : sent[i].packet = Mapped(received[k])
      /\ (Quiescent /\ faults = 0) => Cardinality(SentOf(k)) = 1

\* ------------------------------------------------------ claims on the flow
Receives == {i \in 1..Len(trace) : trace[i].kind = "receive"}
Roots == {i \in Receives : trace[i].parent = 0}
ChildrenOf(p) == {j \in Receives : trace[j].parent = p}
ListenerCalls(p) == {j \in 1..Len(trace) : trace[j].kind = "listener" /\ trace[j].parent = p}
ReceivesAt(c, node) == {j \in Receives : trace[j].call = c /\ trace[j].node = node}
PipeOf(name) == PipeLookup(_pipes, name)
InteriorOf(line) == SubSeq(line, 2, Len(line) - 1)

\* The listeners a name had when call c was made.
ListenersAt(c, name) ==
  Cardinality({k \in 1..(c - 1) : called[k].op = "on" /\ called[k].name = name})

\* What a transform forwards for a packet, and t_N(...t_1(P)).
Apply(f, packet) == Processor(f, packet)[1]
RECURSIVE Compose(_, _)
Compose(fns, packet) ==
  IF fns = <<>> THEN packet ELSE Compose(Tail(fns), Apply(Head(fns), packet))

\* ['in', t1, ..., tN, 'out'] or ['in', series(t1, ..., tN), 'out'], N >= 1
IsSeriesLine(line) ==
  /\ Len(line) >= 3
  /\ line[1] = StringEl("in") /\ line[Len(line)] = StringEl("out")
  /\ \/ Len(line) = 3 /\ isSeriesMarker(line[2])
     \/ \A i \in 2..(Len(line) - 1) : line[i].kind = "function" /\ line[i].name \in Fns

SeriesFns(line) ==
  IF isSeriesMarker(line[2]) THEN line[2].fns
  ELSE [i \in 1..(Len(line) - 2) |-> line[i + 1].name]

\* C15: in a flow made of one line ['in', t1, ..., tN, 'out'] (flat, or the
\* transforms in series(...)), every packet P injected at 'in' is received by
\* t1 as P, by each t(k+1) as what tk forwarded, called by tk and by nothing
\* else, and by 'out' as tN(...t1(P)); nothing else receives anything.
C15_SeriesComposes ==
  (Len(graph) = 1 /\ IsSeriesLine(graph[1])) =>
    LET fns == SeriesFns(graph[1]) IN
      \A i \in Roots : trace[i].node = PipeOf("in") =>
        LET at == i + Cardinality(ListenerCalls(i))
            P == trace[i].packet
        IN /\ at + Len(fns) + 1 <= Len(trace)
           /\ \A k \in 1..Len(fns) :
                /\ trace[at + k].kind = "receive"
                /\ nodes[trace[at + k].node].fn = InnerFn(fns[k])
                /\ trace[at + k].packet = Compose(SubSeq(fns, 1, k - 1), P)
                /\ trace[at + k].parent = (IF k = 1 THEN i ELSE at + k - 1)
           /\ trace[at + Len(fns) + 1].kind = "receive"
           /\ trace[at + Len(fns) + 1].node = PipeOf("out")
           /\ trace[at + Len(fns) + 1].packet = Compose(fns, P)
           /\ trace[at + Len(fns) + 1].parent = at + Len(fns)
           /\ Cardinality({j \in Receives : trace[j].call = trace[i].call}) = Len(fns) + 2

\* C15 witness: a packet went through inc, dbl and a third transform, whose
\* order shows in the result, and a listener on 'out' has seen it.
C15_Witness ==
  /\ Len(graph) = 1 /\ IsSeriesLine(graph[1])
  /\ Len(SeriesFns(graph[1])) = 3
  /\ SeriesFns(graph[1])[1] = "inc" /\ SeriesFns(graph[1])[2] = "dbl"
  /\ \E j \in 1..Len(trace) : trace[j].kind = "listener" /\ trace[j].name = "out"

\* [source, [t1, ..., tN], dest] or [source, parallel(t1, ..., tN), dest],
\* every ti forwarding each packet
IsParallelLine(line) ==
  /\ Len(line) = 3
  /\ line[2].kind = "array" /\ ~isSeriesMarker(line[2])
  /\ \A k \in 1..Len(line[2].fns) : line[2].fns[k] \in Fns

\* C16: in a flow whose first line is [source, [t1, ..., tN], dest], every
\* packet injected at the source is received once by each of the N transforms,
\* as injected; the destination receives exactly N packets, one from each
\* transform, and so does every node connected after the destination.
C16_ParallelFansOut ==
  (Len(graph) >= 1 /\ IsParallelLine(graph[1])) =>
    LET fns == graph[1][2].fns
        src == PipeOf(graph[1][1].name)
        dst == PipeOf(graph[1][3].name)
    IN /\ Len(nodes[src].outputs) = Len(fns)
       /\ \A k \in 1..Len(fns) : nodes[nodes[src].outputs[k]].fn = InnerFn(fns[k])
       /\ \A i \in Roots : trace[i].node = src =>
            /\ \A k \in 1..Len(fns) :
                 \E j \in ChildrenOf(i) :
                   /\ trace[j].node = nodes[src].outputs[k]
                   /\ trace[j].packet = trace[i].packet
                   /\ \E d \in ChildrenOf(j) :
                        /\ ChildrenOf(j) = {d}
                        /\ trace[d].node = dst
                        /\ trace[d].packet = Apply(fns[k], trace[i].packet)
            /\ Cardinality(ChildrenOf(i)) = Len(fns)
            /\ Cardinality(ReceivesAt(trace[i].call, dst)) = Len(fns)
            /\ \A s \in 1..Len(nodes[dst].outputs) :
                 Cardinality(ReceivesAt(trace[i].call, nodes[dst].outputs[s])) = Len(fns)

\* C16 witness: three transforms in the array, a transform wired after the
\* destination, and a packet injected at the source.
C16_Witness ==
  /\ Len(graph) = 2 /\ IsParallelLine(graph[1])
  /\ Len(graph[1][2].fns) = 3
  /\ \E i \in Roots : trace[i].node = PipeOf("in")
  /\ \E j \in Receives : trace[j].node = PipeOf("out")

\* ['in', a, [b, c], d, 'out']
IsMixedLine(line) ==
  /\ Len(line) = 5
  /\ line[2].kind = "function" /\ line[4].kind = "function"
  /\ line[3].kind = "array" /\ ~isSeriesMarker(line[3])

\* C17: in a flow made of the line ['in', a, [b, c], d, 'out'], every packet a
\* forwards is received by b and by c, and every packet b or c forwards is
\* received by d.
C17_NestedArrayIsParallel ==
  (Len(graph) = 1 /\ IsMixedLine(graph[1])) =>
    LET a == graph[1][2].name
        block == graph[1][3].fns
        d == graph[1][4].name
    IN \A i \in Roots : trace[i].node = PipeOf("in") =>
         \A ja \in ChildrenOf(i) :
           /\ nodes[trace[ja].node].fn = InnerFn(a)
           /\ \A k \in 1..Len(block) :
                \E jb \in ChildrenOf(ja) :
                  /\ nodes[trace[jb].node].fn = InnerFn(block[k])
                  /\ trace[jb].packet = Apply(a, trace[i].packet)
                  /\ \E jd \in ChildrenOf(jb) :
                       /\ nodes[trace[jd].node].fn = InnerFn(d)
                       /\ trace[jd].packet = Apply(block[k], trace[jb].packet)

\* The pipe names referenced so far: in the lines, by flow() itself ('in' and
\* 'out'), and through app.pipe(name).
Referenced ==
  NamesOf(graph) \cup {"in", "out"}
    \cup {called[c].name : c \in {k \in 1..Len(called) : called[k].op = "pipe"}}

\* C18: every referenced name has one pipe, a node of its own that notifies
\* the listeners of that name; no two names share a pipe and no name has two;
\* a packet injected under the name has been seen once by every listener
\* registered under it.
C18_PipeBijection ==
  /\ \A name \in Referenced :
       /\ name \in DOMAIN _pipes
       /\ nodes[_pipes[name]].fn = PipeFn(name)
  /\ \A i, j \in 1..Len(nodes) :
       (nodes[i].fn.kind = "pipe" /\ nodes[i].fn = nodes[j].fn) => i = j
  /\ \A c \in 1..Len(called) :
       (called[c].op \in {"emit", "inject"} /\ called[c].name \in NamesOf(graph)) =>
         \E i \in Roots :
           /\ trace[i].call = c
           /\ trace[i].node = PipeOf(called[c].name)
           /\ trace[i].packet = called[c].packet
           /\ Cardinality(ListenerCalls(i)) = ListenersAt(c, called[c].name)
           /\ \A j \in ListenerCalls(i) : trace[j].packet = called[c].packet

\* C19: for every packet a pipe has received, injected or forwarded: each
\* listener registered on the pipe's name at that time was called once with
\* that packet, each successor of the pipe received that packet once from the
\* pipe, and the listeners were called before the successors received it.
C19_PipeNotifiesThenForwards ==
  \A i \in Receives :
    nodes[trace[i].node].fn.kind = "pipe" =>
      LET name == nodes[trace[i].node].fn.arg
          outs == nodes[trace[i].node].outputs
      IN /\ Cardinality(ListenerCalls(i)) = ListenersAt(trace[i].call, name)
         /\ \A l \in 1..ListenersAt(trace[i].call, name) :
              \E j \in ListenerCalls(i) :
                trace[j].listener = l /\ trace[j].name = name /\ trace[j].packet = trace[i].packet
         /\ Cardinality(ChildrenOf(i)) = Len(outs)
         /\ \A k \in 1..Len(outs) :
              \E j \in ChildrenOf(i) :
                trace[j].node = outs[k] /\ trace[j].packet = trace[i].packet
         /\ \A j \in ListenerCalls(i), k \in ChildrenOf(i) : j < k

\* The place of a destination among the outputs of the node that called it.
OutputIndex(j) ==
  LET outs == nodes[trace[trace[j].parent].node].outputs
  IN IF Contains(outs, trace[j].node)
       THEN CHOOSE k \in 1..Len(outs) : outs[k] = trace[j].node
       ELSE 0

RECURSIVE IsUnder(_, _)
IsUnder(j, p) == j = p \/ (j # 0 /\ trace[j].parent # 0 /\ IsUnder(trace[j].parent, p))

\* Whether the call an entry belongs to ran to its end.
Finished(c) == c < Len(called) \/ ~uncaught

\* C20: what a node's send reaches are the node's outputs, in the order they
\* were connected; whatever happens right before a delivery belongs to the
\* downstream of the sender (so the downstream of an earlier output is over
\* before the next output receives: depth first); a send that ran to its end
\* reached every output; the packets of one call are all processed before
\* anything of the next call.
C20_DepthFirstInOrder ==
  /\ \A j \in 1..Len(trace) :
       trace[j].parent # 0 => (j > 1 /\ IsUnder(j - 1, trace[j].parent))
  /\ \A j \in Receives : trace[j].parent # 0 => OutputIndex(j) > 0
  /\ \A j1, j2 \in Receives :
       (j1 < j2 /\ trace[j1].parent # 0 /\ trace[j1].parent = trace[j2].parent)
         => OutputIndex(j1) < OutputIndex(j2)
  /\ \A p \in Receives :
       (Finished(trace[p].call) /\ nodes[trace[p].node].fn # InnerFn("drop")) =>
         \A k \in 1..Len(nodes[trace[p].node].outputs) :
           \E j \in ChildrenOf(p) : trace[j].node = nodes[trace[p].node].outputs[k]
  /\ \A i, j \in 1..Len(trace) : i < j => trace[i].call <= trace[j].call
  /\ \A i, j \in Roots : trace[i].call = trace[j].call => i = j

\* C20 witness: a node with two outputs has sent a packet, and the downstream
\* of the first output (two nodes deep) came before the second output's turn.
C20_Witness ==
  \E j1, j2 \in Receives :
    /\ j1 < j2 /\ trace[j1].parent # 0 /\ trace[j1].parent = trace[j2].parent
    /\ \E m \in Receives : j1 < m /\ m < j2 /\ trace[m].parent # j1 /\ IsUnder(m, j1)
    /\ Len(called) = 2 /\ called[1].op = "emit" /\ called[2].op = "inject"

\* The number of times the function of a node calls send for one packet.
Sends(node, packet) ==
  IF nodes[node].fn.kind = "inner" THEN Len(Processor(nodes[node].fn.arg, packet)) ELSE 1

NoDuplicateOutputs ==
  \A n \in 1..Len(nodes) : \A i, j \in 1..Len(nodes[n].outputs) :
    nodes[n].outputs[i] = nodes[n].outputs[j] => i = j

LastCall == called[Len(called)]

\* In the call that has just run, every send of a node reached each of its
\* outputs once and no other node.
DeliveredOncePerOutput ==
  (called # <<>> /\ LastCall.op = "inject" /\ ~uncaught) =>
    \A p \in Receives : trace[p].call = Len(called) =>
      \A d \in 1..Len(nodes) :
        Cardinality({j \in ChildrenOf(p) : trace[j].node = d}) =
          IF Contains(nodes[trace[p].node].outputs, d)
            THEN Sends(trace[p].node, trace[p].packet) ELSE 0

\* C21: the destinations of a node never hold the same destination twice;
\* connecting a destination that is already connected changes neither the
\* members nor their order; each send delivers the packet once to every
\* destination; after disconnect the destination is gone and later sends do
\* not reach it.
C21_OutputsAreASet ==
  [][/\ NoDuplicateOutputs'
     /\ DeliveredOncePerOutput'
     /\ \A node, next \in 1..Len(nodes) :
          /\ (LastCall'.op = "connect" /\ LastCall'.node = node /\ LastCall'.next = next
                /\ Contains(nodes[node].outputs, next)) => nodes' = nodes
          /\ (LastCall'.op = "disconnect" /\ LastCall'.node = node /\ LastCall'.next = next)
                => /\ ~Contains(nodes'[node].outputs, next)
                   /\ \A m \in 1..Len(nodes) : m # node => nodes'[m] = nodes[m]
                   /\ nodes'[node].outputs =
                        SelectSeq(nodes[node].outputs, LAMBDA out : out # next)]_vars

\* 'out' was connected to 'in' a second time and the next packet injected at
\* 'in' reached 'out' once.
C21_Witness ==
  /\ Len(called) = 2
  /\ called[1].op = "connect" /\ called[2].op = "inject" /\ called[2].name = "in"
  /\ called[1].node = PipeOf("in") /\ called[1].next = PipeOf("out")
  /\ graph = <<Line("in", <<>>, "out")>>
  /\ Cardinality(ReceivesAt(2, PipeOf("out"))) = 1

\* The receives at a transform that never calls send.
Silent(j) == nodes[trace[j].node].fn = InnerFn("drop")
Descendants(p) == {j \in 1..Len(trace) : j # p /\ IsUnder(j, p)}

\* What the function of a node passes to send for one packet.
Forwarded(node, packet) ==
  IF nodes[node].fn.kind = "inner" THEN Processor(nodes[node].fn.arg, packet) ELSE <<packet>>

\* Receive s took place and the node passed its own output on: each output of
\* the node received each packet it sent, and nothing else, from it.
ForwardedOwn(s) ==
  LET node == trace[s].node
      outs == Forwarded(node, trace[s].packet)
  IN \A d \in 1..Len(nodes) :
       LET got == {j \in ChildrenOf(s) : trace[j].node = d} IN
         IF Contains(nodes[node].outputs, d)
           THEN /\ Cardinality(got) = Len(outs)
                /\ \A j \in got : \E i \in 1..Len(outs) : trace[j].packet = outs[i]
           ELSE got = {}

\* C22: when a transform does not call send for a packet, nothing downstream
\* of it receives anything from it; the node that sent the packet to it (a
\* source pipe with several lines, or the source of a parallel block) still
\* delivers to every other output, and each of those forwards its own output.
C22_SilentTransformStopsOnlyItsBranch ==
  \A d \in Receives : Silent(d) =>
    /\ Descendants(d) = {}
    /\ trace[d].parent # 0 =>
         /\ ForwardedOwn(trace[d].parent)
         /\ \A s \in ChildrenOf(trace[d].parent) : ~Silent(s) => ForwardedOwn(s)

\* One packet went to a silent transform and to its sibling in a parallel
\* block, and the sibling's output reached 'out'.
C22_Witness ==
  /\ graph = <<Line("in", <<ArrayEl("", <<"inc", "drop">>)>>, "out")>>
  /\ \E d, s \in Receives :
       /\ Silent(d) /\ ~Silent(s) /\ trace[s].parent = trace[d].parent
       /\ \E o \in ChildrenOf(s) :
            trace[o].node = PipeOf("out") /\ trace[o].packet.payload = Num(2)

\* ------------------------------------------------------------ malformed lines

Recognized(el) == el.kind \in {"string", "function", "flow"}

\* No array, fewer than two elements, or a source or destination that is
\* neither a pipe name, a function nor a flow.
Malformed(line) ==
  \/ ~IsArray(line)
  \/ Len(line) < 2
  \/ ~Recognized(line[1])
  \/ ~Recognized(line[Len(line)])

WellFormedLines(g) == SelectSeq(g, LAMBDA line : ~Malformed(line))

\* c was compiled without an exception and is what k is.
CompiledAs(c, k) ==
  /\ ~c.threw
  /\ c.nodes = k.nodes
  /\ c.pipes = k.pipes
  /\ c.producers = k.producers
  /\ c.subs = k.subs

\* C23: flow() never fails on a malformed line (no array, fewer than two
\* elements, a source or destination of an unrecognized type): the line is
\* skipped and the other lines are compiled exactly as if it were absent.
C23_MalformedLinesSkipped == CompiledAs(flow(graph), flow(WellFormedLines(graph)))

\* ------------------------------------------------------ producers and cleanups

\* The producer calls made in call c on the flow (0: while flow() compiled).
ProducerCalls(c) ==
  {i \in 1..Len(invoked) : invoked[i].kind = "producer" /\ invoked[i].call = c}

\* The calls of the cleanup that producer call i returned.
CleanupsOf(i) ==
  {j \in 1..Len(invoked) :
     /\ invoked[j].kind = "cleanup" /\ invoked[j].app = invoked[i].app
     /\ invoked[j].node = invoked[i].node /\ invoked[j].of = invoked[i].call}

StopsAfter(c) == {d \in 1..Len(called) : d > c /\ called[d].op = "stop"}

NoProducerAtCompile == ProducerCalls(0) = {}

\* Every start() calls every producer binding once, with the send of its node.
StartedOnce ==
  \A c \in 1..Len(called) : called[c].op = "start" =>
    \A k \in 1..Len(_producers) :
      Cardinality({i \in ProducerCalls(c) :
                     /\ invoked[i].app = "app" /\ invoked[i].fn = _producers[k].fn
                     /\ invoked[i].arg = "send"
                     /\ invoked[i].node = _producers[k].node}) = 1

\* A cleanup is called once, in the first stop() after the start that got it,
\* and not before.
CleanedOnce ==
  \A i \in 1..Len(invoked) :
    (invoked[i].kind = "producer" /\ ReturnsCleanup(invoked[i].fn)) =>
      IF StopsAfter(invoked[i].call) = {} THEN CleanupsOf(i) = {}
      ELSE /\ Cardinality(CleanupsOf(i)) = 1
           /\ \A j \in CleanupsOf(i) :
                 \A d \in StopsAfter(invoked[i].call) : invoked[j].call <= d

\* C24: compiling a graph invokes no producer; each start() invokes every
\* producer binding exactly once with a send that feeds that line's source
\* node; every cleanup a producer returned is invoked exactly once, at the
\* next stop(), for any sequence of start and stop calls.
C24_ProducersStartedAndCleaned == NoProducerAtCompile /\ StartedOnce /\ CleanedOnce

\* -------------------------------------------------------- the topology is kept

\* What flow(graph) left: every node's outputs, and the pipe of every name, in
\* the flow and in the flows it has as elements.
TopologyOf(net) == [nodes |-> net.nodes, pipes |-> net.pipes, subs |-> net.subs]

OpsCalled == {called[c].op : c \in 1..Len(called)}

\* C25: after flow() has returned, no emit, inject, start or stop call and no
\* packet on its way changes a node's destinations or the name-to-pipe table:
\* the topology is in every state what it was when compilation ended.
C25_TopologyIsKept ==
  [nodes |-> nodes, pipes |-> _pipes, subs |-> subs] = TopologyOf(flow(graph))

C25_Witness ==
  /\ {"start", "send", "stop"} \subseteq OpsCalled
  /\ \E i, j \in Receives : trace[i].node # trace[j].node
  /\ ~uncaught

\* ------------------------------------------------------------------- compose

InPipe(f) == PipeLookup(subs[f].pipes, "in")
OutPipe(f) == PipeLookup(subs[f].pipes, "out")

\* A flow ['in', t1, ..., tN, 'out'] forwards one packet for each it is given.
OneToOne(f) == Len(SubGraphs[f]) = 1 /\ IsSeriesLine(SubGraphs[f][1])

\* f_n(...f_2(f_1(P)))
RECURSIVE Through(_, _)
Through(flows, packet) ==
  IF flows = <<>> THEN packet
  ELSE Through(Tail(flows), Compose(SeriesFns(SubGraphs[Head(flows)][1]), packet))

\* What the listeners of the composed flow's 'out' were called with in call c.
ComposedOuts(c) ==
  {j \in 1..Len(trace) : /\ trace[j].kind = "listener" /\ trace[j].name = "out"
                         /\ trace[j].listener = 1 /\ trace[j].call = c}

\* C26: compose(f1, ..., fn) connects the flows in sequence: a packet emitted
\* on the composed flow's 'in' enters f1's 'in', every packet on fi's 'out'
\* enters f(i+1)'s 'in', and every packet on fn's 'out' is emitted exactly once
\* on the composed flow's 'out' (seen by each of its listeners once); for
\* one-to-one flows the output is fn(...f2(f1(P))).
C26_ComposeInSequence ==
  /\ \A c \in 1..Len(called) :
        (called[c].op = "emit" /\ called[c].name = "in" /\ _flows # <<>>) =>
          /\ Cardinality({j \in ReceivesAt(c, InPipe(_flows[1])) :
                            trace[j].parent = 0 /\ trace[j].packet = called[c].packet}) = 1
          /\ ((\A i \in 1..Len(_flows) : OneToOne(_flows[i])) /\ ListenersAt(c, "out") > 0) =>
                /\ Cardinality(ComposedOuts(c)) = 1
                /\ \A j \in ComposedOuts(c) :
                      trace[j].packet = Through(_flows, called[c].packet)
  /\ \A i \in 1..(Len(_flows) - 1) :
        \A j \in Receives : trace[j].node = OutPipe(_flows[i]) =>
          Cardinality({k \in ChildrenOf(j) : /\ trace[k].node = InPipe(_flows[i + 1])
                                             /\ trace[k].packet = trace[j].packet}) = 1
  /\ \A j \in Receives : (_flows # <<>> /\ trace[j].node = OutPipe(_flows[Len(_flows)])) =>
        \A l \in 1..ListenersAt(trace[j].call, "out") :
          Cardinality({k \in ListenerCalls(j) : /\ trace[k].name = "out"
                                                /\ trace[k].listener = l
                                                /\ trace[k].packet = trace[j].packet}) = 1

C26_Witness ==
  /\ _flows = <<"f1", "f2">>
  /\ Len(called) = 2 /\ called[2].op = "emit" /\ called[2].name = "in"
  /\ \E j \in ComposedOuts(2) :
        /\ trace[j].packet = Through(_flows, called[2].packet)
        /\ trace[j].packet # called[2].packet
        /\ trace[j].packet # Through(<<"f2", "f1">>, called[2].packet)

\* ------------------------------------------------------- flows as elements

FunctionsOnly(els) == \A i \in 1..Len(els) : els[i].kind = "function" /\ els[i].name \in Fns
NamesIn(els) == [i \in 1..Len(els) |-> els[i].name]

\* The receives at node, with that packet, among the entries js.
Got(js, node, packet) ==
  {k \in js \cap Receives : trace[k].node = node /\ trace[k].packet = packet}

\* [f, t1, ..., tN, 'b']: each packet at f's 'out' enters the line (at the node
\* made for the source) once, and comes to 'b' as tN(...t1(P)).
FlowAsSource(line) ==
  (line[1].kind = "flow" /\ line[Len(line)].kind = "string" /\ FunctionsOnly(InteriorOf(line))) =>
    \A j \in Receives : trace[j].node = OutPipe(line[1].name) =>
      /\ Cardinality({k \in ChildrenOf(j) :
                        /\ nodes[trace[k].node].nodeName = "flow-source"
                        /\ trace[k].packet = trace[j].packet}) = 1
      /\ Cardinality(Got(Descendants(j), PipeOf(line[Len(line)].name),
                         Compose(NamesIn(InteriorOf(line)), trace[j].packet))) = 1

\* ['a', t1, ..., tN, f]: each packet at 'a' comes to f's 'in' as tN(...t1(P)),
\* once.
FlowAsDestination(line) ==
  (line[1].kind = "string" /\ line[Len(line)].kind = "flow" /\ FunctionsOnly(InteriorOf(line))) =>
    \A j \in Receives : trace[j].node = PipeOf(line[1].name) =>
      Cardinality(Got(Descendants(j), InPipe(line[Len(line)].name),
                      Compose(NamesIn(InteriorOf(line)), trace[j].packet))) = 1

\* ['a', f, 'b']: each packet at 'a' is injected into f's 'in' once, each
\* packet at f's 'out' reaches 'b' once.
FlowAsInterior(line) ==
  (Len(line) = 3 /\ line[1].kind = "string" /\ line[2].kind = "flow" /\ line[3].kind = "string") =>
    /\ \A j \in Receives : trace[j].node = PipeOf(line[1].name) =>
          Cardinality(Got(Descendants(j), InPipe(line[2].name), trace[j].packet)) = 1
    /\ \A j \in Receives : trace[j].node = OutPipe(line[2].name) =>
          Cardinality(Got(ChildrenOf(j), PipeOf(line[3].name), trace[j].packet)) = 1

\* C27: a flow can stand in a line as source, destination or interior
\* element: as a source every packet on its 'out' pipe enters the line; as a
\* destination every packet that reaches the end of the line is injected into
\* its 'in' pipe; as the interior of ['input', sub, 'output'] every packet at
\* 'input' is injected into sub's 'in' and every packet on sub's 'out' reaches
\* 'output' exactly once.
C27_FlowAsElement ==
  (Len(graph) = 1 /\ ~Malformed(graph[1])) =>
    FlowAsSource(graph[1]) /\ FlowAsDestination(graph[1]) /\ FlowAsInterior(graph[1])

C27_Witness ==
  /\ graph = <<<<StringEl("in"), FlowEl("f1"), StringEl("out")>>>>
  /\ \E j \in Roots : /\ trace[j].node = PipeOf("in")
                       /\ Got(Descendants(j), InPipe("f1"), trace[j].packet) # {}
                       /\ Got(Descendants(j), PipeOf("out"),
                              Apply("inc", trace[j].packet)) # {}

\* ------------------------------------------------------------------ factories

\* The functions an element of a line holds.
FnsOfEl(el) ==
  CASE el.kind = "function" -> <<el.name>>
    [] el.kind = "array" -> el.fns
    [] OTHER -> <<>>

\* The places of a line where fn stands.
PlacesOf(line, fn) ==
  UNION {{<<e, i>> : i \in {k \in 1..Len(FnsOfEl(line[e])) : FnsOfEl(line[e])[k] = fn}} :
           e \in 1..Len(line)}

FactoryCalls(app, l, fn) ==
  {i \in 1..Len(invoked) : /\ invoked[i].kind = "factory" /\ invoked[i].app = app
                           /\ invoked[i].line = l /\ invoked[i].fn = fn}

\* The processor that stands where the element fn stood.
ProcessorAt(fn) == IF isOuter(fn) THEN Configured(fn) ELSE fn

\* C28: each factory (outer function) element of a line is invoked exactly
\* once, at compile time, with an empty configuration object, and the
\* processor it returns handles every packet at that position; an element
\* that is a processor already (the result of a pre-configured factory call
\* included) is used as it is and never invoked with a configuration object.
C28_FactoriesConfiguredOnce ==
  ~flow(graph).threw =>
    /\ \A i \in 1..Len(invoked) : invoked[i].kind = "factory" =>
          isOuter(invoked[i].fn) /\ invoked[i].arg = "{}" /\ invoked[i].call = 0
    /\ \A l \in 1..Len(graph) : ~Malformed(graph[l]) =>
          \A fn \in OuterFns :
            Cardinality(FactoryCalls("app", l, fn)) = Cardinality(PlacesOf(graph[l], fn))
    /\ \A n \in 1..Len(nodes) : nodes[n].fn.kind = "inner" =>
          nodes[n].fn.arg = ProcessorAt(nodes[n].nodeName)
    /\ (Len(graph) = 1 /\ graph[1][1] = StringEl("in")
          /\ graph[1][Len(graph[1])] = StringEl("out")
          /\ \A e \in 2..(Len(graph[1]) - 1) : graph[1][e].kind = "function") =>
          \A j \in Roots : trace[j].node = PipeOf("in") =>
            Cardinality(Got(Descendants(j), PipeOf("out"),
                            Compose([e \in 1..(Len(graph[1]) - 2) |->
                                       ProcessorAt(graph[1][e + 1].name)],
                                    trace[j].packet))) = 1

C28_Witness ==
  /\ graph = <<<<StringEl("in"), FunctionEl("add5"), FunctionEl("add"), FunctionEl("add5"),
                 StringEl("out")>>>>
  /\ Cardinality(FactoryCalls("app", 1, "add")) = 1
  /\ \E j \in Roots :
        Got(Descendants(j), PipeOf("out"),
            [trace[j].packet EXCEPT !.payload = Num(@.n + 11)]) # {}

\* ------------------------------------------------------------ the first engine

\* The functions of one branch: a bare function, or the functions of an array.
BranchFns(item) == IF item.kind = "array" THEN item.fns ELSE <<item.name>>

\* The entries of js in the order of the trace.
RECURSIVE InOrder(_)
InOrder(js) ==
  IF js = {} THEN <<>>
  ELSE LET first == CHOOSE j \in js : \A k \in js : j <= k
       IN <<first>> \o InOrder(js \ {first})

PacketsOf(js) == [i \in 1..Len(InOrder(js)) |-> trace[InOrder(js)[i]].packet]

\* C29: in the first engine the interior of a line is a fan-out of
\* independent branches, a bare function being a branch of one node and an
\* array of functions a series chain: every branch receives the source's
\* packet and every branch's output goes to the destination, so that
\* ['input', A, B, 'output'] delivers two packets to 'output' and
\* ['input', [A, B, C], 'output'] delivers one, C(B(A(P))).
C29_FanOutOfBranches ==
  (Len(graph) = 1 /\ graph[1][1] = StringEl("in") /\ graph[1][Len(graph[1])] = StringEl("out")) =>
    LET items == InteriorOf(graph[1]) IN
      \A j \in Roots : (trace[j].node = PipeOf("in") /\ items # <<>>) =>
        /\ PacketsOf(ChildrenOf(j)) = [k \in 1..Len(items) |-> trace[j].packet]
        /\ \A k \in 1..Len(items) :
              nodes[trace[InOrder(ChildrenOf(j))[k]].node].nodeName = BranchFns(items[k])[1]
        /\ PacketsOf(ReceivesAt(trace[j].call, PipeOf("out")))
             = [k \in 1..Len(items) |-> Compose(BranchFns(items[k]), trace[j].packet)]

C29_Witness ==
  /\ graph = <<Line("in", <<FunctionEl("inc"), ArrayEl("", <<"dbl", "inc">>)>>, "out")>>
  /\ \E j \in Roots :
        /\ trace[j].node = PipeOf("in")
        /\ PacketsOf(ReceivesAt(trace[j].call, PipeOf("out")))
             = <<Apply("inc", trace[j].packet), Apply("inc", Apply("dbl", trace[j].packet))>>
        /\ Apply("inc", trace[j].packet) # Apply("inc", Apply("dbl", trace[j].packet))

\* ------------------------------------------------------------------------ take

FirstN(q, n) == SubSeq(q, 1, IF n < Len(q) THEN n ELSE Len(q))

\* C30: for any input sequence, take({count: N}) forwards exactly the first N
\* packets it receives, unchanged and in the order they came, and none of the
\* later ones.
C30_TakeForwardsFirstN == sent = FirstN(received, count) /\ taken = Len(sent)

C30_Witness ==
  /\ count >= 2 /\ Len(received) > count
  /\ sent = FirstN(received, count)
  /\ sent[1] # sent[2]

\* -------------------------------------------------------------------- pairwise

HasPayload(packet) == packet.payload # Undefined

RECURSIVE RuleMatches(_, _)
RuleMatches(i, value) ==
  IF rules[i].type = "else" THEN \A j \in 1..(i - 1) : ~RuleMatches(j, value)
  ELSE isMatch(rules[i], value, FALSE)

Matching(value) == {i \in 1..Len(rules) : RuleMatches(i, value)}
FirstMatching(value) == CHOOSE i \in Matching(value) : \A j \in Matching(value) : i <= j

\* What one call with the packet adds to sent.
SentFor(packet) == SubSeq(sent', Len(sent) + 1, Len(sent'))

C33_WorkConserving == ~(Len(pending) > 0 /\ Len(pool) > 0)

\* The workers that have a task in flight.
Busy == {w \in 1..Len(workers) : workers[w].job # NoTask}

\* C34: a worker with a task in flight is never in the idle pool, every
\* hand-over takes a worker whose previous reply has been processed, and while
\* no worker has faulted (and terminate() was not called) the idle workers and
\* the busy workers add up to the configured worker count.
C34_WorkerStateMachine ==
  /\ \A w \in Busy : ~InPool(pool, w)
  /\ \A i \in 1..Len(dispatchLog) : dispatchLog[i].free
  /\ (faults = 0 /\ term = "none") => Len(pool) + Cardinality(Busy) = workerCount

\* C35: the ids of the tasks in flight are pairwise distinct and
\* stats().running is the number of busy workers, whatever ids the caller
\* supplies (stated here for runs without fault and before terminate()).
C35_OneEntryPerBusyWorker ==
  (faults = 0 /\ term = "none") =>
    /\ \A v, w \in Busy : v # w => workers[v].job.id # workers[w].job.id
    /\ Stats.running = Cardinality(Busy)

\* terminate() completed on a queue that had tasks pending or in flight.
TerminatedWithWork ==
  /\ term = "done"
  /\ \E i \in EventsOf("terminated") : events[i].submitted > events[i].completed

\* C37: once terminate() has completed on a queue that had pending or
\* in-flight tasks, a drain() call resolves and no task is handed to a worker.
C37_QuiescentAfterTerminate ==
  [][TerminatedWithWork =>
       /\ drainCalls' = drainCalls + 1 => drainResolved' = drainResolved + 1
       /\ dispatchLog' = dispatchLog]_vars

\* C38: with exactly one worker and no fault, the per-packet adapter forwards
\* the packets in the order they arrived: the packets forwarded are those of
\* the first arrivals, one after the other.
C38_OneWorkerKeepsOrder ==
  (workerCount = 1 /\ faults = 0) =>
    \A i \in 1..Len(sent) :
      /\ sent[i].seq = i
      /\ sent[i].packet.requestId = received[i].requestId

\* C38 witness: one worker, no fault, three packets forwarded, two of which
\* waited together while the first was with the worker.
C38_Witness ==
  /\ workerCount = 1 /\ faults = 0
  /\ Len(sent) = 3
  /\ events[1].pending = 2
  /\ received[1].requestId # received[2].requestId

\* Task k has been handed to a worker.
Dispatched(k) == \E i \in 1..Len(dispatchLog) : dispatchLog[i].seq = k

\* Every task submitted has been handed to a worker and has its 'result' or
\* 'error' event, and 'drain' was emitted after the last of them.
Settled ==
  /\ \A k \in 1..Len(tasks) : Dispatched(k) /\ TaskEvents(k) # {}
  /\ totalSubmitted > 0 =>
       \E i \in EventsOf("drain") : events[i].submitted = totalSubmitted

\* C36: on a queue with at least one worker, without fault and without
\* terminate(), every submitted task is eventually handed to a worker and
\* eventually has its 'result' or 'error' event, and once the submissions have
\* stopped 'drain' is eventually emitted: the run ends up settled for good.
C36_EveryTaskCompletes == <>[]Settled

\* ----------------------------------------------------------------------- delay

\* The arrivals so far, each with its arrival number.
Arrivals == [k \in 1..Len(received) |-> [packet |-> received[k], seq |-> k]]

\* C39: in rate mode with drop false the delay node forwards the packets in
\* arrival order, each once (what was forwarded and what still waits are the
\* arrivals), a timeout fires between any two sends, and in the end every
\* packet has been forwarded; with drop true a packet that found the limiter
\* active is never forwarded; in both modes the limiter becomes inactive only
\* when the processQueue timeout fires with an empty queue.
C39_RateLimited ==
  /\ []((rate # 0 /\ ~drop) =>
          /\ sent \o queue = Arrivals
          /\ \A i \in 2..Len(sentAt) : sentAt[i - 1] < sentAt[i])
  /\ (rate # 0 /\ ~drop) => <>[](sent = Arrivals)
  /\ []((rate # 0 /\ drop) =>
          /\ \A i \in 1..Len(sent) : sent[i].seq \notin busyArrivals
          /\ \A k \in 1..Len(received) :
               k \notin busyArrivals => \E i \in 1..Len(sent) : sent[i] = Arrivals[k])
  /\ [][(processing /\ ~processing') =>
          /\ timers # <<>> /\ Head(timers).kind = "processQueue"
          /\ clock' = clock + 1
          /\ queue = <<>>]_vars

\* C39 witness: with drop false three packets came in while the limiter was
\* active or being started, and each was forwarded one interval after the
\* other.
C39_Witness ==
  /\ rate # 0 /\ ~drop
  /\ Len(received) = 3 /\ busyArrivals = {2, 3}
  /\ sent = Arrivals
  /\ sentAt = <<0, 1, 2>>

====
